---- MODULE Spec2Model ----
(***************************************************************************)
(* A model of the fcpw chess move-generation core: geometry, bitboards     *)
(* (as sets of squares), the precomputed attack tables, the packed Move    *)
(* encoding, the pseudo-legal/legal move generator, and the Position       *)
(* state machine with make_move / unmake_move, plus the perft driver.      *)
(*                                                                         *)
(* A Bitboard (u64) is modelled as the set of squares whose bit is set;    *)
(* and/or/xor/not are set intersection/union/symmetric difference/         *)
(* complement in 0..63, lsb/msb are min/max.                               *)
(***************************************************************************)
EXTENDS Integers, Sequences, FiniteSets, TLC

(***************************************************************************)
(* color.rs, piece.rs, square.rs: enums as their discriminants.            *)
(***************************************************************************)
White == 0
Black == 1
Colors == {White, Black}

Pawn == 0
Knight == 1
Bishop == 2
Rook == 3
Queen == 4
King == 5
PieceTypes == Pawn..King

Squares == 0..63
A1 == 0
C1 == 2
D1 == 3
E1 == 4
F1 == 5
G1 == 6
H1 == 7
A8 == 56
C8 == 58
D8 == 59
E8 == 60
F8 == 61
G8 == 62
H8 == 63

RankOne == 0
RankThree == 2
RankSeven == 6
RankEight == 7
FileA == 0
FileH == 7

North == 0
South == 1
East == 2
West == 3
NorthEast == 4
SouthEast == 5
NorthWest == 6
SouthWest == 7

Direction_all == <<North, South, East, West, NorthEast, SouthEast, NorthWest, SouthWest>>
Direction_orthogonal == <<North, South, East, West>>
Direction_diagonal == <<NorthEast, SouthEast, NorthWest, SouthWest>>

\* faulty variant: East is not among the forward directions
Direction_is_forward_without_east(d) == d \in {North, NorthEast, NorthWest}

Direction_is_forward(d) == d \in {North, NorthEast, NorthWest, East}

Direction_not(d) ==
    CASE d = North -> South
      [] d = South -> North
      [] d = East -> West
      [] d = West -> East
      [] d = NorthEast -> SouthWest
      [] d = SouthWest -> NorthEast
      [] d = NorthWest -> SouthEast
      [] d = SouthEast -> NorthWest

Color_not(c) == IF c = White THEN Black ELSE White

\* relative_rank with its two arms exchanged
Color_relative_rank_swapped(c, rank) == IF c = White THEN 7 - rank ELSE rank

Color_relative_rank(c, rank) == IF c = White THEN rank ELSE 7 - rank

\* Option<Square>::None and Option<Piece>::None (the niche values).
NoSquare == 64
NoPiece == 0

Square_new(file, rank) == rank * 8 + file
Square_file(s) == s % 8
Square_rank(s) == s \div 8

AbsDiff(a, b) == IF a >= b THEN a - b ELSE b - a
Max2(a, b) == IF a >= b THEN a ELSE b

Square_distance(a, b) ==
    Max2(AbsDiff(Square_rank(a), Square_rank(b)), AbsDiff(Square_file(a), Square_file(b)))

Square_same_line(a, b) ==
    IF a = b THEN FALSE
    ELSE IF Square_rank(a) = Square_rank(b) \/ Square_file(a) = Square_file(b) THEN TRUE
    ELSE AbsDiff(Square_file(a), Square_file(b)) = AbsDiff(Square_rank(a), Square_rank(b))

\* Option<Direction>: 8 stands for None.
NoDirection == 8

Square_dir_to(a, b) ==
    IF ~Square_same_line(a, b) THEN NoDirection
    ELSE IF Square_rank(a) = Square_rank(b) THEN (IF a > b THEN West ELSE East)
    ELSE IF Square_file(a) = Square_file(b) THEN (IF a > b THEN South ELSE North)
    ELSE IF Square_rank(a) > Square_rank(b)
         THEN (IF Square_file(a) > Square_file(b) THEN SouthWest ELSE SouthEast)
         ELSE (IF Square_file(a) > Square_file(b) THEN NorthWest ELSE NorthEast)

\* Square::relative(color): the square seen from `color`'s side (rank mirrored for Black).
Square_relative(s, c) == IF c = White THEN s ELSE Square_new(Square_file(s), 7 - Square_rank(s))

(***************************************************************************)
(* piece.rs: Piece packs (kind + 1) | (color << 3) into a NonZeroU8.       *)
(***************************************************************************)
Piece_new(kind, color) == (kind + 1) + color * 8
Piece_kind(p) == (p % 8) - 1
Piece_color(p) == p \div 8

PieceType_promotable == <<Knight, Bishop, Rook, Queen>>

(***************************************************************************)
(* bitboard.rs                                                             *)
(***************************************************************************)
BB_from_rank(r) == {s \in Squares : Square_rank(s) = r}
BB_from_file(f) == {s \in Squares : Square_file(s) = f}
BB_from_opt(s) == IF s = NoSquare THEN {} ELSE {s}

BB_xor(a, b) == (a \ b) \cup (b \ a)
BB_not(a) == Squares \ a

\* u64 shifts drop the bits pushed past bit 63 / below bit 0.
BB_shl(bb, n) == {s + n : s \in {t \in bb : t + n <= 63}}
BB_shr(bb, n) == {s - n : s \in {t \in bb : t - n >= 0}}

RECURSIVE BB_shift(_, _)
BB_shift(bb, dir) ==
    CASE dir = North -> BB_shl(bb, 8)
      [] dir = South -> BB_shr(bb, 8)
      [] dir = East -> BB_shl(bb, 1) \cap BB_not(BB_from_file(FileA))
      [] dir = West -> BB_shr(bb, 1) \cap BB_not(BB_from_file(FileH))
      [] dir = NorthEast -> BB_shift(BB_shift(bb, North), East)
      [] dir = NorthWest -> BB_shift(BB_shift(bb, North), West)
      [] dir = SouthEast -> BB_shift(BB_shift(bb, South), East)
      [] dir = SouthWest -> BB_shift(BB_shift(bb, South), West)

BB_lsb(bb) == CHOOSE s \in bb : \A t \in bb : s <= t
BB_msb(bb) == CHOOSE s \in bb : \A t \in bb : s >= t

\* x & (x - 1) != 0
BB_more_than_one(bb) == bb # {} /\ bb \ {BB_lsb(bb)} # {}
BB_popcount(bb) == Cardinality(bb)

\* Option<Square> of Square::shift: the first square of the shifted bitboard.
Square_shift(s, dir) ==
    LET r == BB_shift({s}, dir) IN IF r = {} THEN NoSquare ELSE BB_lsb(r)

\* BitboardIter::next: take the lsb, clear it.
RECURSIVE BB_iter(_)
BB_iter(bb) ==
    IF bb = {} THEN <<>>
    ELSE LET s == BB_lsb(bb) IN <<s>> \o BB_iter(BB_xor(bb, {s}))

(***************************************************************************)
(* precompute.rs: the tables written by initialize().                      *)
(***************************************************************************)
RECURSIVE RayLoop(_, _)
RayLoop(s, d) ==
    LET n == BB_shift(s, d) IN IF n = {} THEN {} ELSE n \cup RayLoop(n, d)

BB_RAYS == [sq \in Squares |-> [d \in 0..7 |-> RayLoop({sq}, d)]]

ray(square, dir) == BB_RAYS[square][dir]

LineOf(a, b) ==
    IF ~Square_same_line(a, b) THEN {}
    ELSE LET square == IF a < b THEN a ELSE b
             other == IF a < b THEN b ELSE a
         IN BB_RAYS[square][Square_dir_to(square, other)]
              \cup BB_RAYS[square][Square_dir_to(other, square)]
              \cup {square}

BB_LINES == [a \in Squares |-> [b \in Squares |-> LineOf(a, b)]]

line(a, b) == BB_LINES[a][b]

PawnSides(sq) == BB_shift({sq}, West) \cup BB_shift({sq}, East)

ATT_PAWNS ==
    [sq \in Squares |->
        [c \in Colors |-> IF c = White THEN BB_shift(PawnSides(sq), North)
                                       ELSE BB_shift(PawnSides(sq), South)]]

ATT_KING ==
    [sq \in Squares |->
        ATT_PAWNS[sq][White] \cup ATT_PAWNS[sq][Black] \cup PawnSides(sq)
            \cup BB_shift({sq}, North) \cup BB_shift({sq}, South)]

KnightHalf(sq, dir) ==
    BB_shift(BB_shift(BB_shift({sq}, dir), dir), East)
        \cup BB_shift(BB_shift(BB_shift({sq}, dir), dir), West)
        \cup BB_shift(BB_shift(BB_shift({sq}, dir), East), East)
        \cup BB_shift(BB_shift(BB_shift({sq}, dir), West), West)

ATT_KNIGHT == [sq \in Squares |-> KnightHalf(sq, North) \cup KnightHalf(sq, South)]

pawn_attacks(square, color) == ATT_PAWNS[square][color]
knight_attacks(square) == ATT_KNIGHT[square]
king_attacks(square) == ATT_KING[square]

\* faulty variant: the far endpoint is kept in the interval
BB_interval_closed(a, b) ==
    LET dir == Square_dir_to(a, b)
    IN IF dir # NoDirection THEN ray(a, dir) \cap (ray(b, Direction_not(dir)) \cup {b}) ELSE {}

\* Bitboard::interval
BB_interval(a, b) ==
    LET dir == Square_dir_to(a, b)
    IN IF dir # NoDirection THEN ray(a, dir) \cap ray(b, Direction_not(dir)) ELSE {}


SliderDir(square, occupancy, dir) ==
    LET attacks == ray(square, dir)
        blockers == attacks \cap occupancy
    IN IF blockers # {}
       THEN LET blocker == IF Direction_is_forward(dir) THEN BB_lsb(blockers)
                                                        ELSE BB_msb(blockers)
            IN BB_xor(attacks, ray(blocker, dir))
       ELSE attacks

sliders(square, occupancy, dirs) ==
    UNION {SliderDir(square, occupancy, dirs[i]) : i \in 1..Len(dirs)}

bishop_attacks(square, occupancy) == sliders(square, occupancy, Direction_diagonal)
rook_attacks(square, occupancy) == sliders(square, occupancy, Direction_orthogonal)
queen_attacks(square, occupancy) == sliders(square, occupancy, Direction_all)

(***************************************************************************)
(* bitboard.rs: the u64 arithmetic the magic index is built with.  A u64   *)
(* is still the set of its one-bits; products are computed on its five     *)
(* 13-bit digits (the top digit keeps 12 bits: everything is mod 2^64).    *)
(***************************************************************************)
\* Bitboard::new(value) for a value below 2^31
BB_new(value) == {i \in 0..30 : (value \div (2 ^ i)) % 2 = 1}

\* into_inner() of a u64 below 2^13, as the index arithmetic uses it
BB_into_inner(bb) ==
    LET B(j) == IF j \in bb THEN 2 ^ j ELSE 0
    IN B(0) + B(1) + B(2) + B(3) + B(4) + B(5) + B(6) + B(7) + B(8) + B(9) + B(10)
         + B(11) + B(12)

\* wrapping_sub: bit i of a - b is a_i xor b_i xor borrow_i, and a borrow reaches
\* bit i exactly when the low i bits of a are less than the low i bits of b
BB_sub(a, b) ==
    LET Borrow(i) == LET d == {j \in 0..(i - 1) : (j \in a) # (j \in b)}
                     IN d # {} /\ BB_msb(d) \in b
    IN {i \in Squares : ((i \in a) # (i \in b)) # Borrow(i)}

Digit13(bb, k) == BB_into_inner({j \in 0..12 : 13 * k + j \in bb})

\* wrapping_mul, by long multiplication in base 2^13
BB_mul(a, b) ==
    LET Product(x, y) ==
            LET c0 == x[1] * y[1]
                c1 == x[1] * y[2] + x[2] * y[1] + (c0 \div 8192)
                c2 == x[1] * y[3] + x[2] * y[2] + x[3] * y[1] + (c1 \div 8192)
                c3 == x[1] * y[4] + x[2] * y[3] + x[3] * y[2] + x[4] * y[1] + (c2 \div 8192)
                c4 == x[1] * y[5] + x[2] * y[4] + x[3] * y[3] + x[4] * y[2] + x[5] * y[1]
                        + (c3 \div 8192)
                r == <<c0 % 8192, c1 % 8192, c2 % 8192, c3 % 8192, c4 % 4096>>
            IN {i \in Squares : (r[(i \div 13) + 1] \div (2 ^ (i % 13))) % 2 = 1}
    IN Product(<<Digit13(a, 0), Digit13(a, 1), Digit13(a, 2), Digit13(a, 3), Digit13(a, 4)>>,
               <<Digit13(b, 0), Digit13(b, 1), Digit13(b, 2), Digit13(b, 3), Digit13(b, 4)>>)

(***************************************************************************)
(* magic.rs                                                                *)
(***************************************************************************)
\* _pext_u64(a, b): the bits of a selected by b, packed into the low bits
pext(a, b) == {Cardinality({t \in b : t < s}) : s \in a \cap b}

\* 2685821657736338717 = 0x2545F4914F6CDD1D
PRNG_MULTIPLIER ==
    {0, 2, 3, 4, 8, 10, 11, 12, 14, 15, 18, 19, 21, 22, 24, 25, 26, 27, 30, 32, 36, 39, 42,
     44, 45, 46, 47, 48, 50, 54, 56, 58, 61}

\* SeededPRNG::get on state s: the new state and the value returned
SeededPRNG_get(s) ==
    LET a == BB_xor(s, BB_shr(s, 12))
        b == BB_xor(a, BB_shl(a, 25))
        c == BB_xor(b, BB_shr(b, 27))
    IN [state |-> c, value |-> BB_mul(c, PRNG_MULTIPLIER), panic |-> s = {}]

\* SeededPRNG::roll
SeededPRNG_roll(s) ==
    LET g1 == SeededPRNG_get(s)
        g2 == SeededPRNG_get(g1.state)
        g3 == SeededPRNG_get(g2.state)
    IN [state |-> g3.state, value |-> g1.value \cap g2.value \cap g3.value,
        panic |-> g1.panic \/ g2.panic \/ g3.panic]

\* faulty variant: the walk is not stopped by an occupied square
RECURSIVE SliderGenDir_through_blockers(_, _, _)
SliderGenDir_through_blockers(s, dir, occ) ==
    IF s = {} THEN {}
    ELSE LET n == BB_shift(s, dir) IN n \cup SliderGenDir_through_blockers(n, dir, occ)

\* the inner `while s.nonzero()` of slider_gen for one direction
RECURSIVE SliderGenDir(_, _, _)
SliderGenDir(s, dir, occ) ==
    IF s = {} THEN {}
    ELSE LET n == BB_shift(s, dir) IN n \cup SliderGenDir(n \cap BB_not(occ), dir, occ)

slider_gen(square, occ, is_rook) ==
    LET dirs == IF is_rook THEN Direction_orthogonal ELSE Direction_diagonal
    IN UNION {SliderGenDir({square}, dirs[i], occ) : i \in 1..4}

\* init_magics_for: the relevance mask of a square
Magic_mask(square, is_rook) ==
    LET edges ==
            ((BB_from_rank(RankOne) \cup BB_from_rank(RankEight))
                 \cap BB_not(BB_from_rank(Square_rank(square))))
            \cup ((BB_from_file(FileA) \cup BB_from_file(FileH))
                      \cap BB_not(BB_from_file(Square_file(square))))
    IN slider_gen(square, {}, is_rook) \cap BB_not(edges)

\* Magic::index, built without and with the pext feature
Magic_index(m, occupancy) ==
    BB_into_inner(BB_shr(BB_mul(m.mask \cap occupancy, m.magic), m.shift))
Magic_index_pext(m, occupancy) == BB_into_inner(pext(occupancy, m.mask))

\* the seeds of init_magics_for, by rank
MagicSeeds == <<728, 10316, 55013, 32803, 12281, 15100, 16645, 255>>

\* the number of table entries of the squares lo..hi (2^popcount(mask) each)
RECURSIVE TableSizes(_, _, _)
TableSizes(lo, hi, is_rook) ==
    IF lo > hi THEN 0
    ELSE IF lo = hi THEN 2 ^ BB_popcount(Magic_mask(lo, is_rook))
    ELSE LET mid == (lo + hi) \div 2
         IN TableSizes(lo, mid, is_rook) + TableSizes(mid + 1, hi, is_rook)

\* m.pointer of a square, as an offset into the attack table: the sizes of the
\* squares before it
Magic_pointer(square, is_rook) == TableSizes(0, square - 1, is_rook)

\* One turn of the table-filling `while i < size` for entry i (0-based):
\* st = [i, table, epoch, broke].
MagicFillStep(m, st) ==
    IF st.broke \/ st.i >= m.size THEN st
    ELSE LET index == Magic_index(m, m.occupancy[st.i + 1])
         IN IF st.epoch[index] < m.count
            THEN [st EXCEPT !.epoch[index] = m.count,
                            !.table[m.pointer + index] = m.reference[st.i + 1],
                            !.i = st.i + 1]
            ELSE IF st.table[m.pointer + index] # m.reference[st.i + 1]
            THEN [st EXCEPT !.broke = TRUE]
            ELSE [st EXCEPT !.i = st.i + 1]

\* n turns of that loop, split in halves
RECURSIVE MagicFillLoop(_, _, _)
MagicFillLoop(m, st, n) ==
    IF n = 0 THEN st
    ELSE IF n = 1 THEN MagicFillStep(m, st)
    ELSE LET half == MagicFillLoop(m, st, n \div 2)
         IN IF half.broke THEN half ELSE MagicFillLoop(m, half, n - (n \div 2))

\* Magic::attack: the table entry at pointer + index
Magic_attack(m, occupancy) ==
    m.table[m.pointer + (IF m.variant = "pext" THEN Magic_index_pext(m, occupancy)
                                               ELSE Magic_index(m, occupancy))]

(***************************************************************************)
(* movegen.rs: Move packs from | to << 6 | tag << 12 into a NonZeroU16.    *)
(* MoveKind is numbered in its derived order: Normal < Castle < EnPassant  *)
(* < Promotion(Pawn) < ... < Promotion(King).                              *)
(***************************************************************************)
Normal == 0
Castle == 1
EnPassant == 2
Promotion(pt) == 3 + pt
IsPromotion(kind) == kind >= Promotion(Pawn) /\ kind <= Promotion(King)
PromotionType(kind) == kind - 3

MoveKinds == {Normal, Castle, EnPassant} \cup {Promotion(PieceType_promotable[i]) : i \in 1..4}

\* The value a panicking constructor / accessor never returns.
Panicked == -1

Move_new_with_kind(from, to, kind) ==
    LET squares_u16 == from + to * 64
    IN CASE kind = Promotion(Pawn) \/ kind = Promotion(King) -> Panicked
         [] kind = Normal -> squares_u16
         [] kind = Castle -> squares_u16 + 24576
         [] kind = EnPassant -> squares_u16 + 28672
         [] OTHER -> squares_u16 + PromotionType(kind) * 4096

Move_new(from, to) ==
    IF from = to THEN Panicked ELSE Move_new_with_kind(from, to, Normal)

Move_from(m) == m % 64
\* to() that shifts but forgets the 0x3f mask
Move_to_unmasked(m) == m \div 64

Move_to(m) == (m \div 64) % 64
Move_kind(m) ==
    LET bits == (m \div 4096) % 8
    IN CASE bits = 0 -> Normal
         [] bits >= 1 /\ bits <= 4 -> Promotion(bits)
         [] bits = 6 -> Castle
         [] bits = 7 -> EnPassant
         [] OTHER -> Panicked

(***************************************************************************)
(* position.rs: CastleFlag, named by its u8 mask.                          *)
(***************************************************************************)
WhiteShort == 1
WhiteLong == 2
BlackShort == 4
BlackLong == 8

CastleFlag_color(cf) == IF cf \in {WhiteShort, WhiteLong} THEN White ELSE Black
CastleFlag_from_square(cf) == IF CastleFlag_color(cf) = White THEN E1 ELSE E8
CastleFlag_to_square(cf) ==
    CASE cf = WhiteShort -> G1 [] cf = WhiteLong -> C1
      [] cf = BlackShort -> G8 [] cf = BlackLong -> C8
CastleFlag_rook_from_square(cf) ==
    CASE cf = WhiteShort -> H1 [] cf = WhiteLong -> A1
      [] cf = BlackShort -> H8 [] cf = BlackLong -> A8
CastleFlag_rook_to_square(cf) ==
    CASE cf = WhiteShort -> F1 [] cf = WhiteLong -> D1
      [] cf = BlackShort -> F8 [] cf = BlackLong -> D8
CastleFlag_variants_for(c) ==
    IF c = White THEN <<WhiteShort, WhiteLong>> ELSE <<BlackShort, BlackLong>>
CastleFlag_short_for(c) == IF c = White THEN WhiteShort ELSE BlackShort
CastleFlag_long_for(c) == IF c = White THEN WhiteLong ELSE BlackLong

\* castle_rights is a u8 of which only the low four bits are ever used.
U8Bit(x, i) == (x \div (2 ^ i)) % 2
U8And(a, b) ==
    U8Bit(a, 0) * U8Bit(b, 0) + 2 * U8Bit(a, 1) * U8Bit(b, 1)
        + 4 * U8Bit(a, 2) * U8Bit(b, 2) + 8 * U8Bit(a, 3) * U8Bit(b, 3)
        + 16 * U8Bit(a, 4) * U8Bit(b, 4) + 32 * U8Bit(a, 5) * U8Bit(b, 5)
        + 64 * U8Bit(a, 6) * U8Bit(b, 6) + 128 * U8Bit(a, 7) * U8Bit(b, 7)
U8Or(a, b) == a + b - U8And(a, b)
U8Not(a) == 255 - a

(***************************************************************************)
(* position.rs: State and Position.  The State chain (linked through       *)
(* `previous`) is a sequence whose last element is the top.                *)
(***************************************************************************)
State_new ==
    [checkers |-> {}, pinners |-> [c \in Colors |-> {}], blockers |-> [c \in Colors |-> {}],
     captured |-> NoPiece, en_passant |-> NoSquare, castle_rights |-> 0, halfmoves |-> 0]

\* faulty variant: the clone keeps the en passant square of the State it copies
State_clone_keeps_en_passant(st) ==
    [checkers |-> {}, pinners |-> [c \in Colors |-> {}], blockers |-> [c \in Colors |-> {}],
     captured |-> NoPiece, en_passant |-> st.en_passant,
     castle_rights |-> st.castle_rights, halfmoves |-> st.halfmoves]

\* faulty variant: the clone starts the halfmove clock again
State_clone_resets_halfmoves(st) ==
    [checkers |-> {}, pinners |-> [c \in Colors |-> {}], blockers |-> [c \in Colors |-> {}],
     captured |-> NoPiece, en_passant |-> NoSquare,
     castle_rights |-> st.castle_rights, halfmoves |-> 0]

State_clone(st) ==
    [checkers |-> {}, pinners |-> [c \in Colors |-> {}], blockers |-> [c \in Colors |-> {}],
     captured |-> NoPiece, en_passant |-> NoSquare,
     castle_rights |-> st.castle_rights, halfmoves |-> st.halfmoves]

Position_new ==
    [to_move |-> White, moves |-> 0,
     colors |-> [c \in Colors |-> {}], pieces |-> [t \in PieceTypes |-> {}],
     board |-> [s \in Squares |-> NoPiece],
     state |-> <<State_new>>, panic |-> FALSE]

state(p) == p.state[Len(p.state)]

all(p) == p.colors[White] \cup p.colors[Black]
color(p, c) == p.colors[c]
pieces(p, t) == p.pieces[t]
pieces_list(p, ts) == UNION {p.pieces[t] : t \in ts}
spec(p, t, c) == p.pieces[t] \cap p.colors[c]
piece_on(p, s) == p.board[s]
empty(p, s) == piece_on(p, s) = NoPiece

\* lsb_unchecked of the king bitboard; NoSquare when there is no king.
king(p, c) == LET k == spec(p, King, c) IN IF k = {} THEN NoSquare ELSE BB_lsb(k)

has_castle(p, cf) == U8And(state(p).castle_rights, cf) = cf
\* can_castle without the negation of `inb & self.all()`
can_castle_inverted(p, cf) ==
    BB_interval(CastleFlag_from_square(cf), CastleFlag_rook_from_square(cf)) \cap all(p) # {}

can_castle(p, cf) ==
    BB_interval(CastleFlag_from_square(cf), CastleFlag_rook_from_square(cf)) \cap all(p) = {}

ep(p) == state(p).en_passant
checkers(p) == state(p).checkers
pinners(p, c) == state(p).pinners[c]
blockers(p, c) == state(p).blockers[c]
in_check(p) == checkers(p) # {}

add_piece(p, piece, square) ==
    IF p.panic THEN p
    ELSE IF p.board[square] # NoPiece THEN [p EXCEPT !.panic = TRUE]
    ELSE [p EXCEPT !.board[square] = piece,
                   !.colors[Piece_color(piece)] = @ \cup {square},
                   !.pieces[Piece_kind(piece)] = @ \cup {square}]

remove_piece(p, square) ==
    IF p.panic \/ p.board[square] = NoPiece THEN p
    ELSE LET pc == p.board[square]
         IN [p EXCEPT !.board[square] = NoPiece,
                      !.colors[Piece_color(pc)] = BB_xor(@, {square}),
                      !.pieces[Piece_kind(pc)] = BB_xor(@, {square})]

\* faulty variant: the piece-type bitboard is left as it was
move_piece_keeps_type_board(p, from, to) ==
    IF p.panic THEN p
    ELSE IF p.board[from] = NoPiece THEN [p EXCEPT !.panic = TRUE]
    ELSE LET pc == p.board[from]
             x == {from, to}
         IN [p EXCEPT !.board = [[@ EXCEPT ![from] = NoPiece] EXCEPT ![to] = pc],
                      !.colors[Piece_color(pc)] = BB_xor(@, x)]

move_piece(p, from, to) ==
    IF p.panic THEN p
    ELSE IF p.board[from] = NoPiece THEN [p EXCEPT !.panic = TRUE]
    ELSE LET pc == p.board[from]
             x == {from, to}
         IN [p EXCEPT !.board = [[@ EXCEPT ![from] = NoPiece] EXCEPT ![to] = pc],
                      !.colors[Piece_color(pc)] = BB_xor(@, x),
                      !.pieces[Piece_kind(pc)] = BB_xor(@, x)]

add_castle_right(p, cf) ==
    [p EXCEPT !.state[Len(p.state)].castle_rights = U8Or(@, cf)]
remove_castle_right(p, cf) ==
    [p EXCEPT !.state[Len(p.state)].castle_rights = U8And(@, U8Not(cf))]

sliders_to(p, square, occupancy) ==
    (bishop_attacks(square, occupancy) \cap pieces_list(p, {Bishop, Queen}))
        \cup (rook_attacks(square, occupancy) \cap pieces_list(p, {Rook, Queen}))

attacks_to_with_occ(p, square, by, occupancy) ==
    LET pawns == pawn_attacks(square, Color_not(by)) \cap pieces(p, Pawn)
        knights == knight_attacks(square) \cap pieces(p, Knight)
        sl == sliders_to(p, square, occupancy)
        kings == king_attacks(square) \cap pieces(p, King)
    IN (pawns \cup knights \cup sl \cup kings) \cap color(p, by)

\* faulty variant: sliders are not stopped by the pieces in between
attacks_to_through_pieces(p, square, by) == attacks_to_with_occ(p, square, by, {})

attacks_to(p, square, by) == attacks_to_with_occ(p, square, by, all(p))

update_checkers_blockers(p, c) ==
    LET k == king(p, c)
        potential_pinners ==
            attacks_to_with_occ(p, k, Color_not(c), {}) \cap pieces_list(p, {Bishop, Rook, Queen})
        line_to_king(pp) == BB_interval(k, pp) \cap all(p)
        real == {pp \in potential_pinners :
                    ~(BB_more_than_one(line_to_king(pp)) \/ line_to_king(pp) = {})}
    IN [p EXCEPT !.state[Len(p.state)].blockers[c] = @ \cup UNION {line_to_king(pp) : pp \in real},
                 !.state[Len(p.state)].pinners[Color_not(c)] = @ \cup real]

\* A missing king makes lsb_unchecked undefined; the model stops there.
update_state(p) ==
    IF p.panic THEN p
    ELSE IF king(p, White) = NoSquare \/ king(p, Black) = NoSquare THEN [p EXCEPT !.panic = TRUE]
    ELSE LET mov_color == p.to_move
             k == king(p, mov_color)
             p1 == [p EXCEPT !.state[Len(p.state)].checkers = attacks_to(p, k, Color_not(mov_color))]
         IN update_checkers_blockers(update_checkers_blockers(p1, White), Black)

(***************************************************************************)
(* position.rs: is_legal (the default build: strict checks compiled out).  *)
(***************************************************************************)
\* faulty variant: only the landing square of the king is looked at
KingTravelSafe_landing_only(p, from, to, us) ==
    attacks_to_with_occ(p, to, Color_not(us), BB_xor(all(p), {from})) = {}

KingTravelSafe(p, from, to, us) ==
    \A x \in BB_interval(from, to) \cup {to} :
        attacks_to_with_occ(p, x, Color_not(us), BB_xor(all(p), {from})) = {}

\* faulty variant: a pinned piece may leave the line to its king
PinnedMoveStaysOnLine_unchecked(p, from, to, us) == TRUE

\* `if self.blockers(us).has(from)`: a pinned mover stays on the line through the king
PinnedMoveStaysOnLine(p, from, to, us) ==
    (from \in blockers(p, us)) => (line(from, king(p, us)) \cap {to} # {})

\* faulty variant: the captured pawn stays in the occupancy
EnPassantKeepsKingSafe_keeps_captured(p, from, to, us) ==
    sliders_to(p, king(p, us), BB_xor(all(p), {from, to})) \cap color(p, Color_not(us)) = {}

\* the en-passant arm of is_legal: with both pawns lifted no enemy slider reaches the king
EnPassantKeepsKingSafe(p, from, to, us) ==
    LET k == king(p, us)
        ep_able_pawn == Square_new(Square_file(to), Square_rank(from))
    IN sliders_to(p, k, BB_xor(all(p), {ep_able_pawn, from, to}))
           \cap color(p, Color_not(us)) = {}

is_legal(p, mov) ==
    LET us == p.to_move
        to == Move_to(mov)
        from == Move_from(mov)
        flag == Move_kind(mov)
        k == king(p, us)
        ep_able_pawn == Square_new(Square_file(to), Square_rank(from))
        check_ok ==
            IF ~in_check(p) THEN TRUE
            ELSE IF from = k
                 THEN flag # Castle
                        /\ attacks_to_with_occ(p, to, Color_not(us), BB_xor(all(p), {from})) = {}
                 ELSE IF BB_more_than_one(checkers(p)) THEN FALSE
                 ELSE IF flag = EnPassant THEN ep_able_pawn \in checkers(p)
                 ELSE to \in (BB_interval(BB_lsb(checkers(p)), k) \cup checkers(p))
        pin_ok == PinnedMoveStaysOnLine(p, from, to, us)
        king_ok == (from = k) => KingTravelSafe(p, from, to, us)
        ep_ok == (flag = EnPassant) => EnPassantKeepsKingSafe(p, from, to, us)
    IN check_ok /\ pin_ok /\ king_ok /\ ep_ok

(***************************************************************************)
(* position.rs: make_move / unmake_move.                                   *)
(***************************************************************************)
\* faulty variant: state_mut() hands out the State below the top
SetTop_below(p, st) == [p EXCEPT !.state[IF Len(p.state) > 1 THEN Len(p.state) - 1 ELSE 1] = st]

SetTop(p, st) == [p EXCEPT !.state[Len(p.state)] = st]

KingRookRights(p, mover, from, us) ==
    LET v == CastleFlag_variants_for(us)
    IN IF Piece_kind(mover) = King
       THEN LET a == IF has_castle(p, v[1]) THEN remove_castle_right(p, v[1]) ELSE p
            IN IF has_castle(a, v[2]) THEN remove_castle_right(a, v[2]) ELSE a
       ELSE IF Piece_kind(mover) = Rook
       THEN LET a == IF CastleFlag_rook_from_square(v[1]) = from /\ has_castle(p, v[1])
                     THEN remove_castle_right(p, v[1]) ELSE p
            IN IF CastleFlag_rook_from_square(v[2]) = from /\ has_castle(a, v[2])
               THEN remove_castle_right(a, v[2]) ELSE a
       ELSE p

\* faulty variant: the capture of a rook leaves the rights alone
CapturedRookRights_kept(p, capture_square, us) == p

CapturedRookRights(p, capture_square, us) ==
    LET them == Color_not(us)
        cap == state(p).captured
    IN IF cap # NoPiece /\ Piece_kind(cap) = Rook
       THEN IF Square_relative(capture_square, us) = A8 /\ has_castle(p, CastleFlag_long_for(them))
            THEN remove_castle_right(p, CastleFlag_long_for(them))
            ELSE IF Square_relative(capture_square, us) = H8
                      /\ has_castle(p, CastleFlag_short_for(them))
            THEN remove_castle_right(p, CastleFlag_short_for(them))
            ELSE p
       ELSE p

make_move(p, mov) ==
    LET us == p.to_move
        from == Move_from(mov)
        to == Move_to(mov)
        flag == Move_kind(mov)
        pushed == [p EXCEPT !.state = Append(@, [State_clone(state(p)) EXCEPT !.halfmoves = @ + 1])]
        mover == piece_on(pushed, from)
    IN IF p.panic THEN p
       ELSE IF mover = NoPiece THEN [pushed EXCEPT !.panic = TRUE]
       ELSE
        LET isPawn == Piece_kind(mover) = Pawn
            isDouble == Square_distance(from, to) = 2
            capture_square ==
                IF isPawn /\ ~isDouble /\ flag = EnPassant
                THEN Square_new(Square_file(to), Square_rank(from)) ELSE to
            pawned ==
                IF ~isPawn THEN pushed
                ELSE LET q == SetTop(pushed, [state(pushed) EXCEPT !.halfmoves = 0])
                     IN IF isDouble
                        THEN SetTop(q, [state(q) EXCEPT !.en_passant =
                                 Square_new(Square_file(from), Color_relative_rank(us, RankThree))])
                        ELSE IF flag = EnPassant THEN q
                        ELSE IF IsPromotion(flag)
                        THEN add_piece(remove_piece(q, from),
                                       Piece_new(PromotionType(flag), us), from)
                        ELSE q
            piece == piece_on(pawned, capture_square)
            removed ==
                IF piece # NoPiece
                THEN LET r == remove_piece(pawned, capture_square)
                     IN SetTop(r, [state(r) EXCEPT !.halfmoves = 0, !.captured = piece])
                ELSE pawned
            moved == move_piece(removed, from, to)
            castle_flag == IF CastleFlag_to_square(CastleFlag_short_for(us)) = to
                           THEN CastleFlag_short_for(us) ELSE CastleFlag_long_for(us)
            castled ==
                IF flag = Castle
                THEN move_piece(moved, CastleFlag_rook_from_square(castle_flag),
                                CastleFlag_rook_to_square(castle_flag))
                ELSE moved
            righted == CapturedRookRights(KingRookRights(castled, mover, from, us),
                                          capture_square, us)
            flipped == [righted EXCEPT !.to_move = Color_not(@), !.moves = @ + 1]
        IN update_state(flipped)

\* faulty variant: the captured piece is not put back
RestoreCaptured_forgotten(p, to) == p

\* `if let Some(p) = self.state().captured { self.add_piece(p, to) }`
RestoreCaptured(p, to) ==
    LET cap == state(p).captured
    IN IF cap # NoPiece THEN add_piece(p, cap, to) ELSE p

unmake_move(p, mov) ==
    LET flipped == [p EXCEPT !.to_move = Color_not(@), !.moves = @ - 1]
        us == flipped.to_move
        to == Move_to(mov)
        from == Move_from(mov)
        flag == Move_kind(mov)
        back == move_piece(flipped, to, from)
        restored == RestoreCaptured(back, to)
        \* the root State has no previous: state becomes None and every later access
        \* unwraps None
        popped == IF Len(restored.state) <= 1
                  THEN [restored EXCEPT !.panic = TRUE]
                  ELSE [restored EXCEPT !.state = SubSeq(@, 1, Len(@) - 1)]
    IN IF p.panic THEN p
       ELSE IF flag = EnPassant
       THEN add_piece(remove_piece(popped, to), Piece_new(Pawn, Color_not(us)),
                      Square_new(Square_file(to), Square_rank(from)))
       ELSE IF IsPromotion(flag)
       THEN add_piece(remove_piece(popped, from), Piece_new(Pawn, us), from)
       ELSE IF flag = Castle
       THEN LET v == CastleFlag_variants_for(us)
            IN IF CastleFlag_to_square(v[1]) = to
               THEN move_piece(popped, CastleFlag_rook_to_square(v[1]),
                               CastleFlag_rook_from_square(v[1]))
               ELSE IF CastleFlag_to_square(v[2]) = to
               THEN move_piece(popped, CastleFlag_rook_to_square(v[2]),
                               CastleFlag_rook_from_square(v[2]))
               ELSE popped
       ELSE popped

(***************************************************************************)
(* movegen.rs: MoveList (the first `length` slots, as a sequence) and the  *)
(* generators, in generation order.                                        *)
(***************************************************************************)
\* the lists ss[lo], ..., ss[hi] one after the other
RECURSIVE FlattenRange(_, _, _)
FlattenRange(ss, lo, hi) ==
    IF lo > hi THEN <<>>
    ELSE IF lo = hi THEN ss[lo]
    ELSE LET mid == (lo + hi) \div 2
         IN FlattenRange(ss, lo, mid) \o FlattenRange(ss, mid + 1, hi)

Flatten(ss) == FlattenRange(ss, 1, Len(ss))

\* for x in bb { push(f(x)) } for a per-square list f
ForEach(bb, F(_)) == LET sq == BB_iter(bb) IN Flatten([i \in 1..Len(sq) |-> F(sq[i])])

add_prom(from, to) ==
    [i \in 1..4 |-> Move_new_with_kind(from, to, Promotion(PieceType_promotable[i]))]

pawn_moves(p) ==
    LET us == p.to_move
        enemies == color(p, Color_not(us)) \cup BB_from_opt(ep(p))
        empties == BB_not(all(p))
        pawns == spec(p, Pawn, us)
        potential_promotions == pawns \cap BB_from_rank(Color_relative_rank(us, RankSeven))
        non_promotions == BB_xor(pawns, potential_promotions)
        third_rank == BB_from_rank(Color_relative_rank(us, RankThree))
        forward == IF us = White THEN North ELSE South
        back == Direction_not(forward)
        PromsOf(sq) ==
            LET up == Square_shift(sq, forward)
                proms == (BB_from_opt(Square_shift(up, East)) \cup BB_from_opt(Square_shift(up, West)))
                            \cap enemies
            IN (IF empty(p, up) THEN add_prom(sq, up) ELSE <<>>)
                 \o ForEach(proms, LAMBDA dest : add_prom(sq, dest))
        one_ups == BB_shift(non_promotions, forward) \cap empties
        two_ups == BB_shift(one_ups \cap third_rank, forward) \cap empties
        up_east == BB_shift(BB_shift(non_promotions, forward), East) \cap enemies
        up_west == BB_shift(BB_shift(non_promotions, forward), West) \cap enemies
        CaptureKind(x) == IF x = ep(p) THEN EnPassant ELSE Normal
    IN ForEach(potential_promotions, PromsOf)
        \o ForEach(one_ups, LAMBDA x : <<Move_new(Square_shift(x, back), x)>>)
        \o ForEach(two_ups, LAMBDA x : <<Move_new(Square_shift(Square_shift(x, back), back), x)>>)
        \o ForEach(up_east, LAMBDA x :
              <<Move_new_with_kind(Square_shift(Square_shift(x, back), West), x, CaptureKind(x))>>)
        \o ForEach(up_west, LAMBDA x :
              <<Move_new_with_kind(Square_shift(Square_shift(x, back), East), x, CaptureKind(x))>>)

MovesTo(from, targets) == ForEach(targets, LAMBDA t : <<Move_new(from, t)>>)

knight_moves(p) ==
    LET us == p.to_move
    IN ForEach(spec(p, Knight, us), LAMBDA k : MovesTo(k, knight_attacks(k) \ color(p, us)))

king_moves(p) ==
    LET us == p.to_move
        k == king(p, us)
        v == CastleFlag_variants_for(us)
        CastleOf(cf) ==
            IF has_castle(p, cf) /\ can_castle(p, cf)
            THEN <<Move_new_with_kind(CastleFlag_from_square(cf), CastleFlag_to_square(cf), Castle)>>
            ELSE <<>>
    IN MovesTo(k, king_attacks(k) \ color(p, us)) \o CastleOf(v[1]) \o CastleOf(v[2])

bishop_moves(p) ==
    LET us == p.to_move
    IN ForEach(spec(p, Bishop, us),
               LAMBDA b : MovesTo(b, bishop_attacks(b, all(p)) \ color(p, us)))

rook_moves(p) ==
    LET us == p.to_move
    IN ForEach(spec(p, Rook, us),
               LAMBDA r : MovesTo(r, rook_attacks(r, all(p)) \ color(p, us)))

queen_moves(p) ==
    LET us == p.to_move
    IN ForEach(spec(p, Queen, us),
               LAMBDA q : MovesTo(q, queen_attacks(q, all(p)) \ color(p, us)))

pseudo_legal(p) ==
    pawn_moves(p) \o knight_moves(p) \o bishop_moves(p) \o rook_moves(p)
        \o queen_moves(p) \o king_moves(p)

\* MoveList::remove: the last element fills the removed slot.
MoveList_remove(list, index) ==
    LET n == Len(list) - 1
    IN IF index - 1 < n
       THEN SubSeq([list EXCEPT ![index] = list[n + 1]], 1, n)
       ELSE SubSeq(list, 1, n)

\* the filter without the `blockers(us).has(from)` condition
NeedsLegalCheck_skips_blockers(p, m) ==
    LET us == p.to_move
    IN \/ Move_from(m) = king(p, us)
       \/ Move_kind(m) = EnPassant
       \/ in_check(p)

NeedsLegalCheck(p, m) ==
    LET us == p.to_move
    IN \/ Move_from(m) = king(p, us)
       \/ Move_from(m) \in blockers(p, us)
       \/ Move_kind(m) = EnPassant
       \/ in_check(p)

\* One turn of `while i < list.len()`: the move at i is removed (and i stays), or
\* i moves on.  Indices are 1-based here.
PruneStep(p, st) ==
    IF st.i > Len(st.list) THEN st
    ELSE IF NeedsLegalCheck(p, st.list[st.i]) /\ ~is_legal(p, st.list[st.i])
         THEN [st EXCEPT !.list = MoveList_remove(st.list, st.i)]
         ELSE [st EXCEPT !.i = st.i + 1]

\* n turns of the loop, split in halves
RECURSIVE PruneLoop(_, _, _)
PruneLoop(p, st, n) ==
    IF n = 0 THEN st
    ELSE IF n = 1 THEN PruneStep(p, st)
    ELSE LET half == PruneLoop(p, st, n \div 2)
         IN IF half.i > Len(half.list) THEN half
            ELSE PruneLoop(p, half, n - (n \div 2))

\* every turn brings i and list.len() one closer: the loop ends after Len(list) turns
prune_to_legal(p, list) == PruneLoop(p, [list |-> list, i |-> 1], Len(list)).list

legal(p) == prune_to_legal(p, pseudo_legal(p))

(***************************************************************************)
(* The build with the strict_checks feature.  macros.rs: the two-argument  *)
(* strict_not!(e, toks) is `if cfg!(strict_checks) && (e) == true { toks }`*)
(* and strict_cond!(e) is `if cfg!(strict_checks) { assert!(e) }`.  The    *)
(* result of a call is [panic, value]; panic is the abort of the thread.   *)
(***************************************************************************)
Returned(v) == [panic |-> FALSE, value |-> v]
Aborted(v) == [panic |-> TRUE, value |-> v]

\* Position::is_pseudo_legal: `todo!()`
is_pseudo_legal(p, mov) == Aborted(FALSE)

\* can_castle: strict_not!(self.has_castle(cf), return false)
can_castle_strict(p, cf) ==
    IF has_castle(p, cf) = TRUE THEN FALSE
    ELSE can_castle(p, cf)

\* is_legal: strict_not!(self.is_pseudo_legal(mov), return false)
is_legal_strict(p, mov) ==
    LET e == is_pseudo_legal(p, mov)
    IN IF e.panic THEN Aborted(FALSE)
       ELSE IF e.value = TRUE THEN Returned(FALSE)
       ELSE Returned(is_legal(p, mov))

\* generate::pseudo_legal: king_moves pushes a castle under
\* `pos.has_castle(cf) && pos.can_castle(cf)`; the other generators hold no check
pseudo_legal_strict(p) ==
    LET us == p.to_move
        Kept(m) ==
            Move_kind(m) = Castle =>
                \E cf \in {CastleFlag_variants_for(us)[i] : i \in 1..2} :
                    /\ CastleFlag_to_square(cf) = Move_to(m)
                    /\ has_castle(p, cf) /\ can_castle_strict(p, cf)
    IN SelectSeq(pseudo_legal(p), Kept)

\* generate::legal: prune_to_legal calls is_legal on the first move that needs
\* the test
legal_strict(p) ==
    LET list == pseudo_legal_strict(p)
    IN IF \E i \in 1..Len(list) : NeedsLegalCheck(p, list[i])
       THEN Aborted(<<>>)
       ELSE Returned(list)

\* make_move: strict_cond!(self.is_legal(mov)) before anything is changed
make_move_strict(p, mov) ==
    LET e == is_legal_strict(p, mov)
    IN IF e.panic \/ ~e.value THEN [p EXCEPT !.panic = TRUE]
       ELSE make_move(p, mov)

(***************************************************************************)
(* position.rs: new_from_fen.  A FEN is the sequence of its characters.    *)
(***************************************************************************)
AsciiOf ==
    [c \in {"a", "b", "c", "d", "e", "f", "g", "h"} |->
        CASE c = "a" -> 97 [] c = "b" -> 98 [] c = "c" -> 99 [] c = "d" -> 100
          [] c = "e" -> 101 [] c = "f" -> 102 [] c = "g" -> 103 [] c = "h" -> 104]
    @@ [c \in {"0", "1", "2", "3", "4", "5", "6", "7", "8", "9"} |->
        CASE c = "0" -> 48 [] c = "1" -> 49 [] c = "2" -> 50 [] c = "3" -> 51 [] c = "4" -> 52
          [] c = "5" -> 53 [] c = "6" -> 54 [] c = "7" -> 55 [] c = "8" -> 56 [] c = "9" -> 57]

\* Piece::try_from(char)
PieceOfChar ==
    [c \in {"p", "n", "b", "r", "q", "k", "P", "N", "B", "R", "Q", "K"} |->
        CASE c = "p" -> Piece_new(Pawn, Black) [] c = "n" -> Piece_new(Knight, Black)
          [] c = "b" -> Piece_new(Bishop, Black) [] c = "r" -> Piece_new(Rook, Black)
          [] c = "q" -> Piece_new(Queen, Black) [] c = "k" -> Piece_new(King, Black)
          [] c = "P" -> Piece_new(Pawn, White) [] c = "N" -> Piece_new(Knight, White)
          [] c = "B" -> Piece_new(Bishop, White) [] c = "R" -> Piece_new(Rook, White)
          [] c = "Q" -> Piece_new(Queen, White) [] c = "K" -> Piece_new(King, White)]

\* TryFrom<u8> for Rank / File: Ok for 0..8; 8 stands for Err.
RankFile_try_from(value) == IF value < 8 THEN value ELSE 8

FenPanic(p) == [pos |-> [p EXCEPT !.panic = TRUE], next |-> 0]

\* One turn of the piece-placement loop on character i; `next` is the index of
\* the first unread character, `done` is set by the space that ends the field.
FenPlacementStep(fen, i, s) ==
    IF s.done \/ s.pos.panic THEN s
    ELSE LET x == fen[i]
             p == s.pos
             rank == s.rank
             file == s.file
         IN IF x = " " THEN [s EXCEPT !.next = i + 1, !.done = TRUE]
            ELSE IF x = "/"
            THEN IF rank = RankOne
                 THEN [s EXCEPT !.pos = FenPanic(p).pos, !.next = 0]
                 ELSE [s EXCEPT !.rank = rank - 1, !.file = FileA, !.next = i + 1]
            ELSE IF x \in {"1", "2", "3", "4", "5", "6", "7", "8"}
            THEN LET file_index == file + (AsciiOf[x] - AsciiOf["0"])
                 IN [s EXCEPT !.file = IF file_index >= 8 THEN FileH ELSE file_index,
                              !.next = i + 1]
            ELSE IF x \notin DOMAIN PieceOfChar
            THEN [s EXCEPT !.pos = FenPanic(p).pos, !.next = 0]
            ELSE [s EXCEPT !.pos = add_piece(p, PieceOfChar[x], Square_new(file, rank)),
                           !.file = IF file # FileH THEN file + 1 ELSE file,
                           !.next = i + 1]

\* The turns for characters lo..hi in order, split in halves.
RECURSIVE FenPlacementLoop(_, _, _, _)
FenPlacementLoop(fen, lo, hi, s) ==
    IF lo > hi THEN s
    ELSE IF lo = hi THEN FenPlacementStep(fen, lo, s)
    ELSE LET mid == (lo + hi) \div 2
             left == FenPlacementLoop(fen, lo, mid, s)
         IN IF left.done \/ left.pos.panic THEN left
            ELSE FenPlacementLoop(fen, mid + 1, hi, left)

FenPlacement(fen, i, rank, file, p) ==
    LET s == FenPlacementLoop(fen, i, Len(fen),
                 [pos |-> p, rank |-> rank, file |-> file, next |-> i, done |-> FALSE])
    IN [pos |-> s.pos, next |-> s.next]

FenSide(fen, r) ==
    LET i == r.next
    IN IF r.pos.panic \/ i > Len(fen) \/ fen[i] \notin {"w", "-", "b"} THEN FenPanic(r.pos)
       ELSE IF i + 1 > Len(fen) \/ fen[i + 1] # " " THEN FenPanic(r.pos)
       ELSE [pos |-> [r.pos EXCEPT !.to_move = IF fen[i] = "b" THEN Black ELSE White],
             next |-> i + 2]

CastleFlagOfChar(x) ==
    CASE x = "K" -> WhiteShort [] x = "Q" -> WhiteLong
      [] x = "k" -> BlackShort [] x = "q" -> BlackLong

RECURSIVE FenCastle(_, _, _)
FenCastle(fen, i, p) ==
    IF i > Len(fen) \/ p.panic THEN [pos |-> p, next |-> i]
    ELSE LET x == fen[i]
         IN IF x = " " THEN [pos |-> p, next |-> i + 1]
            ELSE IF x = "-"
            THEN IF i + 1 <= Len(fen) /\ fen[i + 1] = " "
                 THEN [pos |-> p, next |-> i + 2] ELSE FenPanic(p)
            ELSE IF x \notin {"K", "Q", "k", "q"} THEN FenPanic(p)
            ELSE FenCastle(fen, i + 1, add_castle_right(p, CastleFlagOfChar(x)))

\* The en passant field: `one` and `two` are the next two characters.
FenEnPassant(fen, r) ==
    LET i == r.next
        p == r.pos
    IN IF p.panic THEN p
       ELSE IF i > Len(fen) THEN p
       ELSE IF fen[i] = "-" THEN update_state(p)
       ELSE IF i + 1 > Len(fen) THEN [p EXCEPT !.panic = TRUE]
       ELSE LET f == IF fen[i] \in DOMAIN AsciiOf THEN RankFile_try_from(AsciiOf[fen[i]]) ELSE 8
                rk == IF fen[i + 1] \in DOMAIN AsciiOf
                      THEN RankFile_try_from(AsciiOf[fen[i + 1]]) ELSE 8
            IN IF f = 8 \/ rk = 8 THEN [p EXCEPT !.panic = TRUE]
               ELSE update_state([p EXCEPT !.state[Len(p.state)].en_passant = Square_new(f, rk)])

new_from_fen(fen) ==
    LET placed == FenPlacement(fen, 1, RankEight, FileA, Position_new)
        sided == FenSide(fen, placed)
        castled == FenCastle(fen, sided.next, sided.pos)
    IN FenEnPassant(fen, castled)

\* rnbqkbnr/pppppppp/8/8/8/8/PPPPPPPP/RNBQKBNR w KQkq - 0 1
STARTING_FEN ==
    <<"r", "n", "b", "q", "k", "b", "n", "r", "/", "p", "p", "p", "p", "p", "p", "p", "p",
      "/", "8", "/", "8", "/", "8", "/", "8", "/", "P", "P", "P", "P", "P", "P", "P", "P",
      "/", "R", "N", "B", "Q", "K", "B", "N", "R", " ", "w", " ", "K", "Q", "k", "q", " ",
      "-", " ", "0", " ", "1">>
\* r3k2r/p1ppqpb1/bn2pnp1/3PN3/1p2P3/2N2Q1p/PPPBBPPP/R3K2R w KQkq -  0 1
KIWIPETE_FEN ==
    <<"r", "3", "k", "2", "r", "/", "p", "1", "p", "p", "q", "p", "b", "1", "/", "b", "n",
      "2", "p", "n", "p", "1", "/", "3", "P", "N", "3", "/", "1", "p", "2", "P", "3", "/",
      "2", "N", "2", "Q", "1", "p", "/", "P", "P", "P", "B", "B", "P", "P", "P", "/", "R",
      "3", "K", "2", "R", " ", "w", " ", "K", "Q", "k", "q", " ", "-", " ", " ", "0", " ",
      "1">>
\* 8/2p5/3p4/KP5r/1R3p1k/8/4P1P1/8 w - -
CPW_POS_3_FEN ==
    <<"8", "/", "2", "p", "5", "/", "3", "p", "4", "/", "K", "P", "5", "r", "/", "1", "R",
      "3", "p", "1", "k", "/", "8", "/", "4", "P", "1", "P", "1", "/", "8", " ", "w", " ",
      "-", " ", "-">>
\* r3k2r/8/8/8/8/8/8/R3K2R w KQkq - 0 1
CASTLING_FEN ==
    <<"r", "3", "k", "2", "r", "/", "8", "/", "8", "/", "8", "/", "8", "/", "8", "/", "8",
      "/", "R", "3", "K", "2", "R", " ", "w", " ", "K", "Q", "k", "q", " ", "-", " ", "0",
      " ", "1">>
\* n1n5/PPPk4/8/8/8/8/4Kppp/5N1N b - - 0 1
PROMOTION_FEN ==
    <<"n", "1", "n", "5", "/", "P", "P", "P", "k", "4", "/", "8", "/", "8", "/", "8", "/",
      "8", "/", "4", "K", "p", "p", "p", "/", "5", "N", "1", "N", " ", "b", " ", "-", " ",
      "-", " ", "0", " ", "1">>
\* r5k1/1P1p4/8/4P3/8/8/8/R3K2R b KQ - 0 1
ALL_KINDS_FEN ==
    <<"r", "5", "k", "1", "/", "1", "P", "1", "p", "4", "/", "8", "/", "4", "P", "3", "/",
      "8", "/", "8", "/", "8", "/", "R", "3", "K", "2", "R", " ", "b", " ", "K", "Q", " ",
      "-", " ", "0", " ", "1">>
\* 3r3b/2p3p1/8/1P1P1P2/3K4/8/8/k7 b - - 0 1: double pushes that give check,
\* with en passant captures at hand
EP_CHECK_FEN ==
    <<"3", "r", "3", "b", "/", "2", "p", "3", "p", "1", "/", "8", "/", "1", "P", "1",
      "P", "1", "P", "2", "/", "3", "K", "4", "/", "8", "/", "8", "/", "k", "7", " ",
      "b", " ", "-", " ", "-", " ", "0", " ", "1">>

\* 4k3/3p4/8/8/B3N3/8/8/4RK2 w - - 0 1
DOUBLE_CHECK_FEN ==
    <<"4", "k", "3", "/", "3", "p", "4", "/", "8", "/", "8", "/", "B", "3", "N", "3", "/",
      "8", "/", "8", "/", "4", "R", "K", "2", " ", "w", " ", "-", " ", "-", " ", "0", " ",
      "1">>

(***************************************************************************)
(* movegen.rs: Move::new_from_uci.  A UCI string is a sequence of bytes.   *)
(* Option<Move> is [some, move]; None is NoMove.                           *)
(***************************************************************************)
NoMove == [some |-> FALSE, move |-> 0]
SomeMove(m) == [some |-> TRUE, move |-> m]

\* TryFrom<[u8; 2]> / TryFrom<&[u8]> for Square; NoSquare stands for Err(()).
Square_try_from(value) ==
    IF Len(value) # 2 THEN NoSquare
    ELSE IF value[1] < 97 \/ value[2] < 48 THEN NoSquare
    ELSE LET f == value[1] - 97
             r == value[2] - 48
         IN IF f >= 8 \/ r >= 8 THEN NoSquare ELSE Square_new(f, r)

PromoOfByte(b) ==
    CASE b = 110 -> Knight [] b = 98 -> Bishop [] b = 114 -> Rook [] b = 113 -> Queen
      [] OTHER -> Pawn

new_from_uci(uci_str, p) ==
    IF Len(uci_str) < 4 \/ Len(uci_str) > 5 THEN NoMove
    ELSE IF Len(uci_str) = 5 /\ uci_str[5] \notin {110, 98, 114, 113} THEN NoMove
    ELSE
      LET has_promo == Len(uci_str) = 5
          promo_type == IF has_promo THEN PromoOfByte(uci_str[5]) ELSE Pawn
          from_sq == Square_try_from(SubSeq(uci_str, 1, 2))
          to_sq == Square_try_from(SubSeq(uci_str, 3, 4))
      IN IF from_sq = NoSquare \/ to_sq = NoSquare THEN NoMove
         ELSE IF piece_on(p, from_sq) = NoPiece THEN NoMove
         ELSE
           LET mover == piece_on(p, from_sq)
               isCastle == Piece_kind(mover) = King /\ Square_distance(from_sq, to_sq) = 2
               isEp == ~isCastle /\ to_sq = ep(p) /\ Piece_kind(mover) = Pawn
               isPromo == ~isCastle /\ ~isEp /\ Piece_kind(mover) = Pawn
                            /\ Square_rank(to_sq) = Color_relative_rank(Piece_color(mover), RankEight)
               kind == IF isCastle THEN Castle
                       ELSE IF isEp THEN EnPassant
                       ELSE IF isPromo THEN Promotion(promo_type)
                       ELSE Normal
           IN IF isPromo /\ ~has_promo THEN NoMove
              ELSE IF has_promo /\ kind < Promotion(Pawn) THEN NoMove
              ELSE SomeMove(Move_new_with_kind(from_sq, to_sq, kind))

\* impl From<Rank> for char, impl From<File> for char
Rank_char(r) == 49 + r
File_char(f) == 97 + f

\* impl Display for Square
Square_display(s) == <<File_char(Square_file(s)), Rank_char(Square_rank(s))>>

\* impl From<PieceType> for char
PieceType_char(pt) ==
    CASE pt = Pawn -> 112 [] pt = Knight -> 110 [] pt = Bishop -> 98
      [] pt = Rook -> 114 [] pt = Queen -> 113 [] pt = King -> 107

\* impl Display for Move: from, to, and the promotion piece of get_promo()
Move_display(m) ==
    LET prom_s == IF IsPromotion(Move_kind(m))
                  THEN <<PieceType_char(PromotionType(Move_kind(m)))>>
                  ELSE <<>>
    IN Square_display(Move_from(m)) \o Square_display(Move_to(m)) \o prom_s

(***************************************************************************)
(* Bounds of the model.                                                    *)
(***************************************************************************)
\* plies played from a constructed position in Spec
MaxPly == 2
\* plies played before a UCI string is decoded in UciSpec
MaxUciPly == 1
\* byte strings handed to make_uci_moves in one call
MaxUciMoves == 2
MaxMoveList == 2
\* sequential calls of precompute::initialize
MaxInitCalls == 3
\* perft depths walked from each position
MaxDepthStart == 4
MaxDepthKiwipete == 3
MaxDepthPos3 == 4

(***************************************************************************)
(* State.                                                                  *)
(*   pos      the Position                                                 *)
(*   history  the moves made and not yet unmade (the caller's LIFO)        *)
(*   frames   the activation records of perft__: [depth, moves, i, nodes]  *)
(*   pc       where the perft driver is: "idle", "loop", "ret", "done"     *)
(*   ret      the value returned by the last finished perft__ call         *)
(*   root     the perft request: [fen, depth]                              *)
(*   mv       Move construction: [from, to, kind, packed]                  *)
(*   uci      UCI decoding: [bytes, result]                                *)
(***************************************************************************)
VARIABLES pos, history, frames, pc, ret, root, mv, uci, mg, iv, um, fenio, pre, ml, en, lay, sl

vars == <<pos, history, frames, pc, ret, root, mv, uci, mg, iv, um, fenio, pre, ml, en, lay, sl>>

\* the variables of the perft, Move and UCI machines, and of the table, interval,
\* UCI-list, FEN and initialization machines
gameVars == <<history, frames, pc, ret, root, mv, uci>>
otherVars == <<mg, iv, um, fenio, pre, ml, en, lay, sl>>

NoRoot == [fen |-> "none", depth |-> 0]
NoMv == [from |-> 0, to |-> 0, kind |-> Normal, packed |-> Panicked, built |-> FALSE, ctor |-> "none"]
NoUci == [bytes |-> <<>>, result |-> NoMove, decoded |-> FALSE]
NoMagic ==
    [variant |-> "none", is_rook |-> FALSE, square |-> 0, mask |-> {}, shift |-> 0,
     pointer |-> 0, magic |-> {}, prng |-> {}, occupancy |-> <<>>, reference |-> <<>>,
     size |-> 0, b |-> {}, count |-> 0, epoch |-> <<>>, table |-> <<>>, pc |-> "off",
     occ |-> {}, got |-> {}]
NoIv == [a |-> 0, b |-> 0, got |-> {}, done |-> FALSE]
NoUm == [moves |-> <<>>, i |-> 0, applied |-> 0, failed |-> FALSE, err |-> <<>>, done |-> FALSE]
NoFen == [fen |-> <<>>, built |-> FALSE]
NoPre == [is_init |-> FALSE, calls |-> 0]
NoEn == [square |-> 0, is_rook |-> FALSE, mask |-> {}, b |-> {}, size |-> 0, visited |-> {}, pc |-> "idle"]
NoLay == [is_rook |-> FALSE, square |-> 0, pointers |-> <<>>, size |-> 0, slot |-> 0, bits |-> {}, pc |-> "idle"]
NoSl == [square |-> 0, occupancy |-> {}, dirs |-> <<>>, got |-> {}, done |-> FALSE]
NoMl == [inner |-> <<>>, length |-> 0, i |-> 0, tested |-> <<>>, done |-> FALSE]

OtherMachinesIdle == mg = NoMagic /\ iv = NoIv /\ um = NoUm /\ fenio = NoFen /\ pre = NoPre /\ ml = NoMl /\ en = NoEn /\ lay = NoLay /\ sl = NoSl
GameIdle ==
    /\ history = <<>> /\ frames = <<>> /\ pc = "idle" /\ ret = 0
    /\ root = NoRoot /\ mv = NoMv /\ uci = NoUci

GameFens ==
    {CPW_POS_3_FEN, CASTLING_FEN, PROMOTION_FEN, ALL_KINDS_FEN, DOUBLE_CHECK_FEN, EP_CHECK_FEN}

(***************************************************************************)
(* Spec: positions constructed from a FEN, then make_move of a legal move  *)
(* and unmake_move of the most recent move, in LIFO order.                 *)
(***************************************************************************)
Init ==
    /\ pos \in {new_from_fen(f) : f \in GameFens}
    /\ history = <<>>
    /\ frames = <<>> /\ pc = "idle" /\ ret = 0 /\ root = NoRoot
    /\ mv = NoMv /\ uci = NoUci
    /\ OtherMachinesIdle

LegalSet(p) == LET l == legal(p) IN {l[i] : i \in 1..Len(l)}

MakeMove ==
    /\ Len(history) < MaxPly
    /\ ~pos.panic
    /\ \E m \in LegalSet(pos) :
          /\ pos' = make_move(pos, m)
          /\ history' = Append(history, m)
    /\ UNCHANGED <<frames, pc, ret, root, mv, uci, otherVars>>

UnmakeMove ==
    /\ history # <<>>
    /\ pos' = unmake_move(pos, history[Len(history)])
    /\ history' = SubSeq(history, 1, Len(history) - 1)
    /\ UNCHANGED <<frames, pc, ret, root, mv, uci, otherVars>>

Next == MakeMove \/ UnmakeMove

Spec == Init /\ [][Next]_vars

(***************************************************************************)
(* Properties of Spec.                                                     *)
(***************************************************************************)
SeqSet(l) == {l[i] : i \in 1..Len(l)}
KindsOf(ms) == {Move_kind(m) : m \in ms}
IsCapture(p, m) == piece_on(p, Move_to(m)) # NoPiece \/ Move_kind(m) = EnPassant

\* C1: in every reachable position, make_move of any legal move followed by
\* unmake_move of the same move gives back the position exactly: to_move, moves,
\* board, colour and piece bitboards and the whole State chain with its top State.
C1_MakeUnmakeRestores ==
    \A m \in LegalSet(pos) : unmake_move(make_move(pos, m), m) = pos

\* a position reached by play whose legal moves are of all four kinds, with
\* capturing and non-capturing promotions among them
C1_Witness ==
    /\ history # <<>>
    /\ {Normal, Castle, EnPassant, Promotion(Queen)} \subseteq KindsOf(LegalSet(pos))
    /\ \E m \in LegalSet(pos) : IsPromotion(Move_kind(m)) /\ IsCapture(pos, m)
    /\ \E m \in LegalSet(pos) : IsPromotion(Move_kind(m)) /\ ~IsCapture(pos, m)
    /\ \E m \in LegalSet(pos) : Move_kind(m) = Normal /\ IsCapture(pos, m)
    /\ \A m \in LegalSet(pos) : unmake_move(make_move(pos, m), m) = pos

AllPieces == {Piece_new(t, c) : t \in PieceTypes, c \in Colors}

BoardAgrees(p) ==
    /\ \A s \in Squares : p.board[s] \in AllPieces \cup {NoPiece}
    /\ \A s \in Squares : \A pce \in AllPieces :
          (p.board[s] = pce) <=> (s \in p.colors[Piece_color(pce)] /\ s \in p.pieces[Piece_kind(pce)])
    /\ p.colors[White] \cap p.colors[Black] = {}
    /\ \A t, u \in PieceTypes : t # u => p.pieces[t] \cap p.pieces[u] = {}
    /\ p.colors[White] \cup p.colors[Black] = UNION {p.pieces[t] : t \in PieceTypes}
    /\ p.colors[White] \cup p.colors[Black] = {s \in Squares : p.board[s] # NoPiece}

\* C2: after construction and after every make_move / unmake_move of a LIFO
\* sequence of legal moves the board array and the bitboards agree.
C2_BoardBitboardsAgree == ~pos.panic /\ BoardAgrees(pos)

\* a position at the ply bound whose last move captured a piece
C2_Witness ==
    /\ Len(history) = MaxPly
    /\ state(pos).captured # NoPiece
    /\ BoardAgrees(pos)

\* The reference legality test: play the move, then look whether the mover's
\* king is attacked; castling also needs the king out of check and an
\* unattacked path.
KingSafeAfter(p, m) ==
    LET us == p.to_move
        q == make_move(p, m)
    IN attacks_to(q, king(q, us), Color_not(us)) = {}

CastlePathSafe(p, m) ==
    LET us == p.to_move
    IN /\ attacks_to(p, king(p, us), Color_not(us)) = {}
       /\ \A x \in BB_interval(Move_from(m), Move_to(m)) \cup {Move_to(m)} :
             attacks_to(p, x, Color_not(us)) = {}

ReferenceLegal(p, m) ==
    KingSafeAfter(p, m) /\ (Move_kind(m) = Castle => CastlePathSafe(p, m))

\* C3: legal(p) is exactly the pseudo-legal moves that leave the mover's king
\* unattacked (castling: also not out of or through check); nothing legal is
\* dropped, nothing illegal survives, nothing is listed twice.
C3_LegalIsExactlyTheSafeMoves ==
    LET l == legal(pos)
    IN /\ SeqSet(l) = {m \in SeqSet(pseudo_legal(pos)) : ReferenceLegal(pos, m)}
       /\ Cardinality(SeqSet(l)) = Len(l)

\* a position in which a move of a pinned piece was filtered out and a move that
\* prune_to_legal passes without calling is_legal survived
C3_Witness ==
    /\ history # <<>>
    /\ \E m \in SeqSet(pseudo_legal(pos)) :
          /\ Move_from(m) \in blockers(pos, pos.to_move)
          /\ m \notin LegalSet(pos)
          /\ ~ReferenceLegal(pos, m)
    /\ \E m \in LegalSet(pos) : ~NeedsLegalCheck(pos, m) /\ ReferenceLegal(pos, m)

\* C4: after a make_move the side to move has at most two checkers.
C4_AtMostTwoCheckers ==
    history # <<>> => BB_popcount(checkers(pos)) <= 2

\* a double check given by the move just made
C4_Witness ==
    /\ history # <<>>
    /\ BB_popcount(checkers(pos)) = 2

(***************************************************************************)
(* PerftSpec*: perft.rs.  perft / perft__ as an explicit stack of          *)
(* activation records walking the tree with make_move / unmake_move.       *)
(***************************************************************************)
\* the node counts asserted by the test suites of perft.rs
StartposExpected == <<20, 400, 8902, 197281, 4865609>>
KiwipeteExpected == <<48, 2039, 97862, 4085603, 193690690>>
CpwPos3Expected == <<14, 191, 2812, 43238, 674624>>

PerftInit(fen, name, maxDepth) ==
    /\ pos = new_from_fen(fen)
    /\ root \in {[fen |-> name, depth |-> d] : d \in 0..maxDepth}
    /\ history = <<>>
    /\ frames = <<>> /\ pc = "idle" /\ ret = 0
    /\ mv = NoMv /\ uci = NoUci
    /\ OtherMachinesIdle

Frame(depth, moves) == [depth |-> depth, moves |-> moves, i |-> 1, nodes |-> 0]
TopFrame == frames[Len(frames)]

\* perft(pos, depth) is entered: depth 0 returns 1, depth 1 the number of legal moves
PerftCall ==
    /\ pc = "idle"
    /\ IF root.depth = 0
       THEN ret' = 1 /\ pc' = "done" /\ frames' = frames
       ELSE LET moves == legal(pos)
            IN IF root.depth = 1
               THEN ret' = Len(moves) /\ pc' = "done" /\ frames' = frames
               ELSE ret' = ret /\ pc' = "loop" /\ frames' = <<Frame(root.depth, moves)>>
    /\ UNCHANGED <<pos, history, root, mv, uci, otherVars>>

\* `pos.make_move(x); perft__(pos, depth - 1)` up to the callee's loop or return
PerftMake ==
    /\ pc = "loop"
    /\ TopFrame.i <= Len(TopFrame.moves)
    /\ LET x == TopFrame.moves[TopFrame.i]
           made == make_move(pos, x)
           depth == TopFrame.depth - 1
           moves == legal(made)
       IN /\ pos' = made
          /\ IF depth = 0
             THEN ret' = 1 /\ pc' = "ret" /\ frames' = frames
             ELSE IF depth = 1
             THEN ret' = Len(moves) /\ pc' = "ret" /\ frames' = frames
             ELSE ret' = ret /\ pc' = "loop" /\ frames' = Append(frames, Frame(depth, moves))
    /\ UNCHANGED <<history, root, mv, uci, otherVars>>

\* `nodes += <returned count>; pos.unmake_move(x)`
PerftUnmake ==
    /\ pc = "ret"
    /\ frames # <<>>
    /\ pos' = unmake_move(pos, TopFrame.moves[TopFrame.i])
    /\ frames' = [frames EXCEPT ![Len(frames)] =
                     [@ EXCEPT !.nodes = @ + ret, !.i = @ + 1]]
    /\ pc' = "loop"
    /\ UNCHANGED <<ret, history, root, mv, uci, otherVars>>

\* the loop over the moves is finished: return `nodes`
PerftReturn ==
    /\ pc = "loop"
    /\ TopFrame.i > Len(TopFrame.moves)
    /\ ret' = TopFrame.nodes
    /\ frames' = SubSeq(frames, 1, Len(frames) - 1)
    /\ pc' = IF Len(frames) = 1 THEN "done" ELSE "ret"
    /\ UNCHANGED <<pos, history, root, mv, uci, otherVars>>

PerftNext == PerftCall \/ PerftMake \/ PerftUnmake \/ PerftReturn

PerftStartInit == PerftInit(STARTING_FEN, "startpos", MaxDepthStart)
PerftKiwipeteInit == PerftInit(KIWIPETE_FEN, "kiwipete", MaxDepthKiwipete)
PerftPos3Init == PerftInit(CPW_POS_3_FEN, "cpw_pos_3", MaxDepthPos3)

PerftStartSpec == PerftStartInit /\ [][PerftNext]_vars
PerftKiwipeteSpec == PerftKiwipeteInit /\ [][PerftNext]_vars
PerftPos3Spec == PerftPos3Init /\ [][PerftNext]_vars

PerftResultIs(name, expected) ==
    (pc = "done" /\ root.fen = name /\ root.depth <= Len(expected)) =>
        ret = IF root.depth = 0 THEN 1 ELSE expected[root.depth]

AllMoveKinds == {Normal, Castle, EnPassant} \cup {Promotion(pt) : pt \in PieceTypes}

MoveInit ==
    /\ pos = new_from_fen(STARTING_FEN)
    /\ history = <<>> /\ frames = <<>> /\ pc = "idle" /\ ret = 0
    /\ root = NoRoot /\ mv = NoMv /\ uci = NoUci
    /\ OtherMachinesIdle

\* Move::new_with_kind(from, to, kind)
MoveNewWithKind ==
    /\ ~mv.built
    /\ \E from \in Squares, to \in Squares, kind \in AllMoveKinds :
          mv' = [from |-> from, to |-> to, kind |-> kind,
                 packed |-> Move_new_with_kind(from, to, kind),
                 built |-> TRUE, ctor |-> "new_with_kind"]
    /\ UNCHANGED <<pos, history, frames, pc, ret, root, uci, otherVars>>

\* Move::new(from, to)
MoveNew ==
    /\ ~mv.built
    /\ \E from \in Squares, to \in Squares :
          mv' = [from |-> from, to |-> to, kind |-> Normal,
                 packed |-> Move_new(from, to),
                 built |-> TRUE, ctor |-> "new"]
    /\ UNCHANGED <<pos, history, frames, pc, ret, root, uci, otherVars>>

MoveNext == MoveNewWithKind \/ MoveNew
MoveSpec == MoveInit /\ [][MoveNext]_vars

\* C8: for from # to and each of the seven valid kinds the constructed move
\* decodes to the same from, to and kind; Move::new gives kind Normal; kind()
\* never reaches its "Illegal bit combination" arm.
C8_MoveRoundTrip ==
    (mv.built /\ mv.from # mv.to /\ mv.kind \in MoveKinds) =>
        /\ mv.packed # Panicked
        /\ Move_from(mv.packed) = mv.from
        /\ Move_to(mv.packed) = mv.to
        /\ Move_kind(mv.packed) = mv.kind
        /\ Move_kind(mv.packed) # Panicked
        /\ (mv.ctor = "new" => Move_kind(mv.packed) = Normal)

\* a queen promotion from G7 to H8 was constructed and decoded
C8_Witness ==
    /\ mv.built /\ mv.ctor = "new_with_kind"
    /\ mv.from = 54 /\ mv.to = 63 /\ mv.kind = Promotion(Queen)
    /\ Move_from(mv.packed) = 54 /\ Move_to(mv.packed) = 63
    /\ Move_kind(mv.packed) = Promotion(Queen)

\* C9: the packed value of every move new_with_kind returns is nonzero.
C9_PackedNeverZero ==
    (mv.built /\ mv.ctor = "new_with_kind" /\ mv.packed # Panicked) => mv.packed # 0

(***************************************************************************)
(* UciSpec: movegen.rs, Move::new_from_uci applied to byte strings in the  *)
(* positions reached by at most MaxUciPly legal moves.                     *)
(***************************************************************************)
UciFileBytes == {AsciiOf["a"], AsciiOf["e"]}
UciRankBytes == {AsciiOf["0"], AsciiOf["1"], AsciiOf["2"], AsciiOf["7"]}
\* 'q', and a byte that is no promotion piece
UciSuffixBytes == {113, 120}
UciSquares == {<<f, r>> : f \in UciFileBytes, r \in UciRankBytes}
UciInputs ==
    {a \o b : a \in UciSquares, b \in UciSquares}
        \cup {a \o b \o <<x>> : a \in UciSquares, b \in UciSquares, x \in UciSuffixBytes}
        \cup {<<>>, <<101, 50, 101>>, <<101, 50, 101, 52, 113, 113>>}

UciFens == {STARTING_FEN, ALL_KINDS_FEN}

UciInit ==
    /\ pos \in {new_from_fen(f) : f \in UciFens}
    /\ history = <<>> /\ frames = <<>> /\ pc = "idle" /\ ret = 0
    /\ root = NoRoot /\ mv = NoMv /\ uci = NoUci
    /\ OtherMachinesIdle

UciPlay ==
    /\ ~uci.decoded
    /\ Len(history) < MaxUciPly
    /\ \E m \in LegalSet(pos) :
          /\ pos' = make_move(pos, m)
          /\ history' = Append(history, m)
    /\ UNCHANGED <<frames, pc, ret, root, mv, uci, otherVars>>

\* Move::new_from_uci(bytes, &pos).  A zero handed to NonZeroU16::new_unchecked
\* is undefined behaviour: the Option<Move> read back is Some or None.
UciDecode ==
    /\ ~uci.decoded
    /\ \E bytes \in UciInputs :
          LET r == new_from_uci(bytes, pos)
          IN \E res \in (IF r.some /\ r.move = 0 THEN {r, NoMove} ELSE {r}) :
                uci' = [bytes |-> bytes, result |-> res, decoded |-> TRUE]
    /\ UNCHANGED <<pos, history, frames, pc, ret, root, mv, otherVars>>

UciNext == UciPlay \/ UciDecode
UciSpec == UciInit /\ [][UciNext]_vars

MoveInvariant(m) ==
    LET from == Move_from(m)
        to == Move_to(m)
        kind == Move_kind(m)
    IN /\ from # to
       /\ kind # Panicked
       /\ kind = Castle => Square_rank(from) = Square_rank(to)
       /\ kind = EnPassant => AbsDiff(Square_rank(from), Square_rank(to)) = 1
       /\ kind \notin {Promotion(Pawn), Promotion(King)}

PseudoLegalMovesSatisfyInvariant ==
    \A m \in SeqSet(pseudo_legal(pos)) : MoveInvariant(m)

DecodedMoveSatisfiesInvariant ==
    (uci.decoded /\ uci.result.some) => MoveInvariant(uci.result.move)

\* C10: every move pseudo_legal emits for a reachable position and every
\* Some(move) new_from_uci returns has from # to, equal ranks if Castle, ranks
\* one apart if EnPassant, and no Pawn or King promotion.
C10_ProducedMovesSatisfyInvariants ==
    PseudoLegalMovesSatisfyInvariant /\ DecodedMoveSatisfiesInvariant

(***************************************************************************)
(* MagicSpec: magic.rs, init_magics_for on one square (the body of its     *)
(* `for square` loop, as every square is treated alike and takes its own   *)
(* seed), followed by lookups.  The build is chosen at the start: with the *)
(* multiply-shift index ("magic") or with the pext feature ("pext").       *)
(*   mg.pc  "enumerate": in the carry-rippler `loop`                       *)
(*          "search":    in `while i < size` looking for a magic number    *)
(*          "ready":     the tables of the square are written              *)
(*          "looked":    bishop_attacks / rook_attacks has been called     *)
(***************************************************************************)
\* the builds, pieces and squares initialized: with either index the bishop on
\* B7, C8 and E1; with pext the bishop on A1 and the rook on B2; with the
\* multiply-shift index the rook on B4
MagicCases ==
    {[variant |-> v, is_rook |-> FALSE, square |-> sq] :
        v \in {"magic", "pext"}, sq \in {Square_new(1, 6), Square_new(2, 7), E1}}
    \cup {[variant |-> "pext", is_rook |-> FALSE, square |-> A1]}
    \cup {[variant |-> "pext", is_rook |-> TRUE, square |-> Square_new(1, 1)]}
    \cup {[variant |-> "magic", is_rook |-> TRUE, square |-> Square_new(1, 3)]}

\* faulty variant: the next subset is looked for one above the current one
NextSubset_plus_one(b, mask) == BB_sub(b, Squares) \cap mask

\* `b = (b.sub(m.mask)) & m.mask`
NextSubset(b, mask) == BB_sub(b, mask) \cap mask

MagicStart(c) ==
    LET mask == Magic_mask(c.square, c.is_rook)
        n == 2 ^ BB_popcount(mask)
        pointer == Magic_pointer(c.square, c.is_rook)
    IN [variant |-> c.variant, is_rook |-> c.is_rook, square |-> c.square,
        mask |-> mask, shift |-> 64 - BB_popcount(mask), pointer |-> pointer,
        magic |-> {}, prng |-> BB_new(MagicSeeds[Square_rank(c.square) + 1]),
        occupancy |-> <<>>, reference |-> <<>>, size |-> 0, b |-> {}, count |-> 0,
        epoch |-> [i \in 0..(n - 1) |-> 0],
        table |-> [i \in pointer..(pointer + n - 1) |-> {}],
        pc |-> "enumerate", occ |-> {}, got |-> {}]

MagicInit ==
    /\ pos = Position_new
    /\ GameIdle
    /\ mg \in {MagicStart(c) : c \in MagicCases}
    /\ iv = NoIv /\ um = NoUm /\ fenio = NoFen /\ pre = NoPre /\ ml = NoMl /\ en = NoEn /\ lay = NoLay /\ sl = NoSl

\* one turn of the `loop` that walks the subsets of the mask
MagicEnumerate ==
    /\ mg.pc = "enumerate"
    /\ LET ref == slider_gen(mg.square, mg.b, mg.is_rook)
           nb == NextSubset(mg.b, mg.mask)
       IN mg' = [mg EXCEPT
                    !.occupancy = IF mg.variant = "pext" THEN @ ELSE Append(@, mg.b),
                    !.reference = Append(@, ref),
                    !.table = IF mg.variant = "pext"
                              THEN [@ EXCEPT ![mg.pointer + Magic_index_pext(mg, mg.b)] = ref]
                              ELSE @,
                    !.size = @ + 1,
                    !.b = nb,
                    !.pc = IF nb # {} THEN "enumerate"
                           ELSE IF mg.variant = "pext" THEN "ready" ELSE "search"]
    /\ UNCHANGED <<pos, gameVars, iv, um, fenio, pre, ml, en, lay, sl>>

MagicCandidateIsDense == BB_popcount(BB_shr(BB_mul(mg.magic, mg.mask), 56)) >= 6

\* one turn of `while (m.magic.mul(m.mask) >> 56).popcount() < 6`
MagicRoll ==
    /\ mg.pc = "search"
    /\ ~MagicCandidateIsDense
    /\ LET r == SeededPRNG_roll(mg.prng)
       IN /\ ~r.panic
          /\ mg' = [mg EXCEPT !.magic = r.value, !.prng = r.state]
    /\ UNCHANGED <<pos, gameVars, iv, um, fenio, pre, ml, en, lay, sl>>

\* the candidate is tried on every occupancy; a clash starts the search again
\* with m.magic = 0
MagicTrial ==
    /\ mg.pc = "search"
    /\ MagicCandidateIsDense
    /\ LET m == [mg EXCEPT !.count = @ + 1]
           st == MagicFillLoop(m, [i |-> 0, table |-> m.table, epoch |-> m.epoch,
                                   broke |-> FALSE], m.size)
       IN mg' = [m EXCEPT !.table = st.table, !.epoch = st.epoch,
                          !.magic = IF st.broke THEN {} ELSE @,
                          !.pc = IF st.broke THEN "search" ELSE "ready"]
    /\ UNCHANGED <<pos, gameVars, iv, um, fenio, pre, ml, en, lay, sl>>

\* the occupancies looked up: every subset of the mask, alone, with the square
\* itself, and with every square outside the mask
LookupOccupancies(m) ==
    {sub \cup extra : sub \in SUBSET m.mask, extra \in {{}, {m.square}, BB_not(m.mask)}}

\* magic::bishop_attacks / magic::rook_attacks
MagicLookup ==
    /\ mg.pc = "ready"
    /\ \E occ \in LookupOccupancies(mg) :
          mg' = [mg EXCEPT !.pc = "looked", !.occ = occ, !.got = Magic_attack(mg, occ)]
    /\ UNCHANGED <<pos, gameVars, iv, um, fenio, pre, ml, en, lay, sl>>

MagicNext == MagicEnumerate \/ MagicRoll \/ MagicTrial \/ MagicLookup
MagicSpec == MagicInit /\ [][MagicNext]_vars

IntervalInit ==
    /\ pos = Position_new /\ GameIdle
    /\ mg = NoMagic /\ um = NoUm /\ fenio = NoFen /\ pre = NoPre /\ ml = NoMl /\ en = NoEn /\ lay = NoLay /\ sl = NoSl
    /\ iv \in {[a |-> a, b |-> b, got |-> {}, done |-> FALSE] : a \in Squares, b \in Squares}

\* Bitboard::interval(a, b)
IntervalCall ==
    /\ ~iv.done
    /\ iv' = [iv EXCEPT !.got = BB_interval(iv.a, iv.b), !.done = TRUE]
    /\ UNCHANGED <<pos, gameVars, mg, um, fenio, pre, ml, en, lay, sl>>

IntervalNext == IntervalCall
IntervalSpec == IntervalInit /\ [][IntervalNext]_vars

\* two squares share a rank, a file or a diagonal
SharesLine(a, b) ==
    \/ Square_rank(a) = Square_rank(b)
    \/ Square_file(a) = Square_file(b)
    \/ AbsDiff(Square_file(a), Square_file(b)) = AbsDiff(Square_rank(a), Square_rank(b))

InRange(x, p, q) == (p <= x /\ x <= q) \/ (q <= x /\ x <= p)

\* the squares strictly between a and b on the segment joining them
StrictlyBetween(a, b) ==
    {s \in Squares :
        /\ s # a /\ s # b
        /\ (Square_file(s) - Square_file(a)) * (Square_rank(b) - Square_rank(a))
              = (Square_rank(s) - Square_rank(a)) * (Square_file(b) - Square_file(a))
        /\ InRange(Square_file(s), Square_file(a), Square_file(b))
        /\ InRange(Square_rank(s), Square_rank(a), Square_rank(b))}

\* C12: Bitboard::interval is symmetric, never holds an endpoint, is empty when
\* the squares share no line or are the same square, and is otherwise exactly
\* the squares strictly between the two.
C12_IntervalIsStrictlyBetween ==
    iv.done =>
        /\ iv.got = BB_interval(iv.b, iv.a)
        /\ iv.a \notin iv.got /\ iv.b \notin iv.got
        /\ (iv.a = iv.b \/ ~SharesLine(iv.a, iv.b)) => iv.got = {}
        /\ (iv.a # iv.b /\ SharesLine(iv.a, iv.b)) => iv.got = StrictlyBetween(iv.a, iv.b)

\* a diagonal pair, given from the far end, with squares between
C12_Witness ==
    /\ iv.done /\ iv.a = H8 /\ iv.b = Square_new(2, RankThree)
    /\ Cardinality(iv.got) = 4
    /\ iv.got = StrictlyBetween(iv.a, iv.b)

\* ---------------------------------------------------------------------------
\* The inputs Move::new_from_uci is to refuse.  A well-formed field is a file
\* letter a-h followed by a rank digit 1-8, and names that square.
\* ---------------------------------------------------------------------------
UciFieldOk(f) == Len(f) = 2 /\ f[1] \in 97..104 /\ f[2] \in 49..56
UciFieldSquare(f) == Square_new(f[1] - 97, f[2] - 49)

UciMalformed(bytes, p) ==
    \/ Len(bytes) \notin {4, 5}
    \/ /\ Len(bytes) \in {4, 5}
       /\ \/ ~UciFieldOk(SubSeq(bytes, 1, 2))
          \/ ~UciFieldOk(SubSeq(bytes, 3, 4))
          \/ Len(bytes) = 5 /\ bytes[5] \notin {110, 98, 114, 113}
          \/ /\ UciFieldOk(SubSeq(bytes, 1, 2)) /\ UciFieldOk(SubSeq(bytes, 3, 4))
             /\ LET from == UciFieldSquare(SubSeq(bytes, 1, 2))
                    to == UciFieldSquare(SubSeq(bytes, 3, 4))
                    mover == piece_on(p, from)
                    lastRank == /\ mover # NoPiece /\ Piece_kind(mover) = Pawn
                                /\ Square_rank(to) = Color_relative_rank(Piece_color(mover), RankEight)
                IN \/ mover = NoPiece
                   \/ Len(bytes) = 5 /\ ~lastRank
                   \/ Len(bytes) = 4 /\ lastRank

\* C13: Move::new_from_uci never aborts and returns None for every malformed or
\* unresolvable input: a length other than 4 or 5, a from or to field that is
\* not a file letter and a rank digit, a fifth byte other than n/b/r/q, an empty
\* source square, a promotion letter on a move that is no pawn move to the last
\* rank, a pawn move to the last rank without a promotion letter.
C13_MalformedUciGivesNone ==
    uci.decoded =>
        /\ uci.result.move # Panicked
        /\ UciMalformed(uci.bytes, pos) => uci.result = NoMove

\* ---------------------------------------------------------------------------
\* UciTextSpec: Move::new_from_uci applied to the text Display writes for a
\* legal move of the position.
\* ---------------------------------------------------------------------------
UciDecodePrinted ==
    /\ ~uci.decoded
    /\ \E m \in LegalSet(pos) :
          LET bytes == Move_display(m)
              r == new_from_uci(bytes, pos)
          IN \E res \in (IF r.some /\ r.move = 0 THEN {r, NoMove} ELSE {r}) :
                uci' = [bytes |-> bytes, result |-> res, decoded |-> TRUE]
    /\ UNCHANGED <<pos, history, frames, pc, ret, root, mv, otherVars>>

UciTextNext == UciPlay \/ UciDecodePrinted
UciTextSpec == UciInit /\ [][UciTextNext]_vars

\* C14: for every legal move m of a reachable position, new_from_uci applied to
\* the bytes Display writes for m returns Some(m).
C14_PrintedMoveDecodesToItself ==
    uci.decoded =>
        \A m \in LegalSet(pos) :
            Move_display(m) = uci.bytes => uci.result = SomeMove(m)

(***************************************************************************)
(* UciMovesSpec: position.rs, Position::make_uci_moves on a list of byte   *)
(* strings.  um.i is the position of the `for` loop in the list, um.applied *)
(* the last move handed to make_move, um.err the string returned in Err.   *)
(***************************************************************************)
\* e1e3 e1e2 g0f2 e6e4 (decoded as E2-E4, E2-E3, G1-F3, E7-E5), a0a7, e0e7,
\* e1e1, e2e4, e3, the empty string
UciMoveStrings ==
    {<<101, 49, 101, 51>>, <<101, 49, 101, 50>>, <<103, 48, 102, 50>>, <<101, 54, 101, 52>>,
     <<97, 48, 97, 55>>, <<101, 48, 101, 55>>, <<101, 49, 101, 49>>, <<101, 50, 101, 52>>,
     <<101, 51>>, <<>>}

RECURSIVE ListsUpTo(_, _)
ListsUpTo(S, n) ==
    IF n = 0 THEN {<<>>}
    ELSE LET shorter == ListsUpTo(S, n - 1)
         IN shorter \cup {Append(l, x) : l \in shorter, x \in S}

UciMovesInit ==
    /\ pos = new_from_fen(STARTING_FEN) /\ GameIdle
    /\ mg = NoMagic /\ iv = NoIv /\ fenio = NoFen /\ pre = NoPre /\ ml = NoMl /\ en = NoEn /\ lay = NoLay /\ sl = NoSl
    /\ um \in {[NoUm EXCEPT !.moves = l, !.i = 1] : l \in ListsUpTo(UciMoveStrings, MaxUciMoves)}

\* one turn of `for &uci_str in moves`: Err(uci_str) when new_from_uci returns
\* None, make_move(x) otherwise
MakeUciMovesStep ==
    /\ ~um.done /\ ~um.failed /\ ~pos.panic
    /\ um.i <= Len(um.moves)
    /\ LET uci_str == um.moves[um.i]
           r == new_from_uci(uci_str, pos)
       IN \E x \in (IF r.some /\ r.move = 0 THEN {r, NoMove} ELSE {r}) :
             IF x.some
             THEN /\ pos' = make_move(pos, x.move)
                  /\ um' = [um EXCEPT !.i = @ + 1, !.applied = x.move]
             ELSE /\ pos' = pos
                  /\ um' = [um EXCEPT !.failed = TRUE, !.err = uci_str]
    /\ UNCHANGED <<gameVars, mg, iv, fenio, pre, ml, en, lay, sl>>

\* `Ok(())` after the last string
MakeUciMovesReturn ==
    /\ ~um.done /\ ~um.failed /\ ~pos.panic
    /\ um.i > Len(um.moves)
    /\ um' = [um EXCEPT !.done = TRUE]
    /\ UNCHANGED <<pos, gameVars, mg, iv, fenio, pre, ml, en, lay, sl>>

UciMovesNext == MakeUciMovesStep \/ MakeUciMovesReturn
UciMovesSpec == UciMovesInit /\ [][UciMovesNext]_vars

\* the string under the loop decodes to a legal move of the current position
DecodesToLegal(bytes, p) ==
    LET r == new_from_uci(bytes, p)
    IN r.some /\ r.move \in LegalSet(p)

\* C15: make_uci_moves applies a string only as a move that is legal in the
\* position at that point, returns Err with the first string that is not one,
\* and never aborts.
C15_OnlyLegalMovesApplied ==
    [][ (um.i >= 1 /\ um.i <= Len(um.moves) /\ ~um.failed /\ ~um.done) =>
          IF DecodesToLegal(um.moves[um.i], pos)
          THEN /\ pos' = make_move(pos, new_from_uci(um.moves[um.i], pos).move)
               /\ ~pos'.panic /\ ~um'.failed
          ELSE /\ pos' = pos /\ um'.failed /\ um'.err = um.moves[um.i] ]_vars

(***************************************************************************)
(* FenSpec: position.rs, Position::new_from_fen on FEN texts put together  *)
(* from a piece placement, a side to move, a castling field and what       *)
(* follows it.                                                             *)
(***************************************************************************)
\* rnbqkbnr/pppppppp/8/8/4P3/8/PPPP1PPP/RNBQKBNR b KQkq e3 0 1
AFTER_E4_FEN ==
    <<"r", "n", "b", "q", "k", "b", "n", "r", "/", "p", "p", "p", "p", "p", "p", "p", "p",
      "/", "8", "/", "8", "/", "4", "P", "3", "/", "8", "/", "P", "P", "P", "P", "1", "P",
      "P", "P", "/", "R", "N", "B", "Q", "K", "B", "N", "R", " ", "b", " ", "K", "Q", "k",
      "q", " ", "e", "3", " ", "0", " ", "1">>

\* the positions of the spaces of a FEN, and the field after the n-th one
FenSpaces(fen) == {i \in 1..Len(fen) : fen[i] = " "}
FenNthSpace(fen, n) ==
    IF Cardinality(FenSpaces(fen)) < n THEN 0
    ELSE CHOOSE i \in FenSpaces(fen) : Cardinality({j \in FenSpaces(fen) : j < i}) = n - 1
FenBoard(fen) == SubSeq(fen, 1, FenNthSpace(fen, 1) - 1)

\* rooks and kings on their home squares
FenCastleBoards == {FenBoard(f) : f \in {STARTING_FEN, KIWIPETE_FEN, CASTLING_FEN, AFTER_E4_FEN}}
\* 4k3/8/8/8/8/8/4R3/4K3: the black king in check
FenCheckBoard ==
    <<"4", "k", "3", "/", "8", "/", "8", "/", "8", "/", "8", "/", "8", "/", "4", "R", "3",
      "/", "4", "K", "3">>
FenOtherBoards == {FenBoard(f) : f \in {ALL_KINDS_FEN, DOUBLE_CHECK_FEN}} \cup {FenCheckBoard}
\* what follows the castling field: nothing, a space, "-", or a target square,
\* with or without the move counters
FenTails ==
    {<<>>, <<" ">>, <<" ", "-">>, <<" ", "-", " ", "0", " ", "1">>,
     <<" ", "e", "3">>, <<" ", "e", "3", " ", "0", " ", "1">>, <<" ", "d", "6">>,
     <<" ", "a", "6", " ", "0", " ", "1">>}
FenInputs ==
    {b \o <<" ", c, " ">> \o r \o t :
        b \in FenCastleBoards \cup FenOtherBoards, c \in {"w", "b"}, r \in {<<"-">>}, t \in FenTails}
    \cup {b \o <<" ", c, " ">> \o r \o t :
        b \in FenCastleBoards, c \in {"w", "b"}, r \in {<<"K", "Q", "k", "q">>, <<"K", "q">>}, t \in FenTails}
    \cup {AFTER_E4_FEN, CPW_POS_3_FEN}

FenInit ==
    /\ pos = Position_new /\ GameIdle
    /\ mg = NoMagic /\ iv = NoIv /\ um = NoUm /\ pre = NoPre /\ ml = NoMl /\ en = NoEn /\ lay = NoLay /\ sl = NoSl
    /\ fenio \in {[fen |-> f, built |-> FALSE] : f \in FenInputs}

\* Position::new_from_fen(fen)
FenBuild ==
    /\ ~fenio.built
    /\ pos' = new_from_fen(fenio.fen)
    /\ fenio' = [fenio EXCEPT !.built = TRUE]
    /\ UNCHANGED <<gameVars, mg, iv, um, pre, ml, en, lay, sl>>

FenNext == FenBuild
FenSpec == FenInit /\ [][FenNext]_vars

\* the en passant field of a FEN: the two characters after the third space
FenHasEpField(fen) ==
    LET i == FenNthSpace(fen, 3)
    IN i # 0 /\ i + 1 <= Len(fen) /\ (fen[i + 1] = "-" \/ i + 2 <= Len(fen))
FenEpIsDash(fen) == fen[FenNthSpace(fen, 3) + 1] = "-"
\* the square a target-square field names: file letter a-h, rank digit 1-8
FenEpSquare(fen) ==
    LET i == FenNthSpace(fen, 3)
    IN Square_new(AsciiOf[fen[i + 1]] - 97, AsciiOf[fen[i + 2]] - 49)

FenDashGivesNoEp ==
    (fenio.built /\ FenHasEpField(fenio.fen) /\ FenEpIsDash(fenio.fen)) =>
        ~pos.panic /\ ep(pos) = NoSquare

FenSquareGivesEp ==
    (fenio.built /\ FenHasEpField(fenio.fen) /\ ~FenEpIsDash(fenio.fen)) =>
        ~pos.panic /\ ep(pos) = FenEpSquare(fenio.fen)

\* C16: new_from_fen on a well-formed FEN whose en passant field is a target
\* square returns a Position whose ep() is that square, on one whose field is
\* "-" a Position whose ep() is None, and aborts in neither case.
C16_FenEnPassantFieldIsRead == FenDashGivesNoEp /\ FenSquareGivesEp

\* C17: the strict checks are pure assertions: in a consistent position
\* can_castle, is_legal, generate::legal and make_move return the same results
\* and leave the same state with strict_checks enabled as without it.
StrictCanCastleAgrees ==
    \A cf \in {WhiteShort, WhiteLong, BlackShort, BlackLong} :
        can_castle_strict(pos, cf) = can_castle(pos, cf)
StrictIsLegalAgrees ==
    \A m \in SeqSet(pseudo_legal(pos)) :
        LET r == is_legal_strict(pos, m) IN ~r.panic /\ r.value = is_legal(pos, m)
StrictLegalAgrees ==
    LET r == legal_strict(pos) IN ~r.panic /\ r.value = legal(pos)
StrictMakeMoveAgrees ==
    \A m \in LegalSet(pos) : make_move_strict(pos, m) = make_move(pos, m)

C17_StrictChecksChangeNothing ==
    ~pos.panic =>
        /\ StrictCanCastleAgrees /\ StrictIsLegalAgrees
        /\ StrictLegalAgrees /\ StrictMakeMoveAgrees

(***************************************************************************)
(* InitSpec: precompute.rs, sequential calls of initialize().  pre holds   *)
(* IS_INIT, the five tables as they stand (all EMPTY before the first      *)
(* call), the number of runs of magic::init_magics, the number of loop     *)
(* turns that wrote to a table, and the place of the running call:         *)
(*   "idle" no call runs        "magic"   before magic::init_magics()      *)
(*   "rays" in the first `for square` loop, at square sq                   *)
(*   "attacks" in the second `for square` loop, at square sq               *)
(*   "flag" before IS_INIT.set(true)                                       *)
(* The build has the magic feature or not.                                 *)
(***************************************************************************)
PreStart(feature) ==
    [is_init |-> FALSE, calls |-> 0, pc |-> "idle", sq |-> 0, magic |-> feature,
     rays |-> [s \in Squares |-> [d \in 0..7 |-> {}]],
     lines |-> [a \in Squares |-> [b \in Squares |-> {}]],
     pawns |-> [s \in Squares |-> [c \in Colors |-> {}]],
     king |-> [s \in Squares |-> {}],
     knight |-> [s \in Squares |-> {}],
     magic_runs |-> 0, writes |-> 0, writes_at_flag |-> 0, panic |-> FALSE]

PrecomputeInit ==
    /\ pos = Position_new /\ GameIdle
    /\ mg = NoMagic /\ iv = NoIv /\ um = NoUm /\ fenio = NoFen /\ ml = NoMl /\ en = NoEn /\ lay = NoLay /\ sl = NoSl
    /\ pre \in {PreStart(feature) : feature \in BOOLEAN}

\* `if IS_INIT.get() == Some(&true) { return; }`
InitializeReturnsEarly ==
    /\ pre.pc = "idle" /\ pre.calls < MaxInitCalls
    /\ pre.is_init
    /\ pre' = [pre EXCEPT !.calls = @ + 1]
    /\ UNCHANGED <<pos, gameVars, mg, iv, um, fenio, ml, en, lay, sl>>

\* faulty variant: the body is entered whatever IS_INIT holds
InitializeEnters_unguarded ==
    /\ pre.pc = "idle" /\ pre.calls < MaxInitCalls
    /\ pre' = [pre EXCEPT !.pc = IF pre.magic THEN "magic" ELSE "rays", !.sq = 0]
    /\ UNCHANGED <<pos, gameVars, mg, iv, um, fenio, ml, en, lay, sl>>

InitializeEnters ==
    /\ pre.pc = "idle" /\ pre.calls < MaxInitCalls
    /\ ~pre.is_init
    /\ pre' = [pre EXCEPT !.pc = IF pre.magic THEN "magic" ELSE "rays", !.sq = 0]
    /\ UNCHANGED <<pos, gameVars, mg, iv, um, fenio, ml, en, lay, sl>>

\* `#[cfg(feature = "magic")] magic::init_magics();`
InitializeMagics ==
    /\ pre.pc = "magic"
    /\ pre' = [pre EXCEPT !.magic_runs = @ + 1, !.writes = @ + 1, !.pc = "rays"]
    /\ UNCHANGED <<pos, gameVars, mg, iv, um, fenio, ml, en, lay, sl>>

\* one turn of the first `for square`: the eight rays of the square, then for
\* every other square on a line with it whose BB_LINES entry is still empty the
\* line, written at [square][other] and [other][square].  No turn of the inner
\* loop reads an entry an earlier turn of it wrote.
InitializeRaysLines ==
    /\ pre.pc = "rays"
    /\ LET square == pre.sq
           rays == [pre.rays EXCEPT ![square] = [d \in 0..7 |-> RayLoop({square}, d)]]
           fresh == {other \in Squares :
                        Square_same_line(square, other) /\ pre.lines[square][other] = {}}
           ln(other) == rays[square][Square_dir_to(square, other)]
                            \cup rays[square][Square_dir_to(other, square)]
                            \cup {square}
           lines == [a \in Squares |-> [b \in Squares |->
                        IF a = square /\ b \in fresh THEN ln(b)
                        ELSE IF b = square /\ a \in fresh THEN ln(a)
                        ELSE pre.lines[a][b]]]
       IN pre' = [pre EXCEPT !.rays = rays, !.lines = lines, !.writes = @ + 1,
                             !.sq = IF square = 63 THEN 0 ELSE square + 1,
                             !.pc = IF square = 63 THEN "attacks" ELSE "rays"]
    /\ UNCHANGED <<pos, gameVars, mg, iv, um, fenio, ml, en, lay, sl>>

\* one turn of the second `for square`: pawn attacks, king attacks, and the
\* knight attacks or-ed into the entry
InitializeAttacks ==
    /\ pre.pc = "attacks"
    /\ LET square == pre.sq
           s == {square}
           sides == BB_shift(s, West) \cup BB_shift(s, East)
           pawns == [pre.pawns EXCEPT ![square] =
                        [c \in Colors |-> IF c = White THEN BB_shift(sides, North)
                                                       ELSE BB_shift(sides, South)]]
           king_att == pawns[square][White] \cup pawns[square][Black] \cup sides
                       \cup BB_shift(s, North) \cup BB_shift(s, South)
           knight_att == pre.knight[square] \cup KnightHalf(square, North)
                         \cup KnightHalf(square, South)
       IN pre' = [pre EXCEPT !.pawns = pawns, !.king[square] = king_att,
                             !.knight[square] = knight_att, !.writes = @ + 1,
                             !.sq = IF square = 63 THEN 0 ELSE square + 1,
                             !.pc = IF square = 63 THEN "flag" ELSE "attacks"]
    /\ UNCHANGED <<pos, gameVars, mg, iv, um, fenio, ml, en, lay, sl>>

\* `IS_INIT.set(true).unwrap()`: set returns Err when the cell is already set
InitializeSetsFlag ==
    /\ pre.pc = "flag"
    /\ pre' = IF pre.is_init THEN [pre EXCEPT !.panic = TRUE, !.pc = "idle"]
              ELSE [pre EXCEPT !.is_init = TRUE, !.calls = @ + 1, !.pc = "idle",
                               !.writes_at_flag = pre.writes]
    /\ UNCHANGED <<pos, gameVars, mg, iv, um, fenio, ml, en, lay, sl>>

PrecomputeNext ==
    \/ InitializeReturnsEarly \/ InitializeEnters \/ InitializeMagics
    \/ InitializeRaysLines \/ InitializeAttacks \/ InitializeSetsFlag
PrecomputeSpec == PrecomputeInit /\ [][PrecomputeNext]_vars

\* C18: initialize is idempotent: the flag is set only after every table has
\* been written, and once it is set every later call returns without writing
\* to any table, so the tables stay as the first call left them.
C18_InitializeIsIdempotent ==
    pre.is_init =>
        /\ ~pre.panic /\ pre.pc = "idle"
        /\ pre.rays = BB_RAYS /\ pre.lines = BB_LINES
        /\ pre.pawns = ATT_PAWNS /\ pre.king = ATT_KING /\ pre.knight = ATT_KNIGHT
        /\ pre.magic_runs = (IF pre.magic THEN 1 ELSE 0)
        /\ pre.writes = pre.writes_at_flag

\* the third call has returned in the build with the magic feature
C18_Witness ==
    /\ pre.is_init /\ pre.magic /\ pre.calls = MaxInitCalls
    /\ pre.magic_runs = 1
    /\ pre.lines = BB_LINES /\ pre.knight = ATT_KNIGHT
    /\ pre.writes = 129

\* ---------------------------------------------------------------------------
\* The derived fields of the top State, computed from the board array alone.
\* ---------------------------------------------------------------------------
Occupied(p) == {s \in Squares : p.board[s] # NoPiece}
KingSquares(p, c) == {s \in Squares : p.board[s] = Piece_new(King, c)}
HasBothKings(p) == KingSquares(p, White) # {} /\ KingSquares(p, Black) # {}
KingSquare(p, c) == CHOOSE s \in KingSquares(p, c) : TRUE

OnDiagonal(s, t) ==
    s # t /\ AbsDiff(Square_file(s), Square_file(t)) = AbsDiff(Square_rank(s), Square_rank(t))
OnOrthogonal(s, t) ==
    s # t /\ (Square_file(s) = Square_file(t) \/ Square_rank(s) = Square_rank(t))
\* the piece on s slides along the line through s and t
SlidesAlong(p, s, t) ==
    LET kind == Piece_kind(p.board[s])
    IN \/ kind \in {Bishop, Queen} /\ OnDiagonal(s, t)
       \/ kind \in {Rook, Queen} /\ OnOrthogonal(s, t)

\* the piece on s attacks the square t with the pieces that stand on the board
PieceAttacks(p, s, t) ==
    LET who == p.board[s]
        kind == Piece_kind(who)
        df == AbsDiff(Square_file(s), Square_file(t))
        dr == Square_rank(t) - Square_rank(s)
    IN /\ who # NoPiece
       /\ \/ kind = Pawn /\ df = 1 /\ dr = (IF Piece_color(who) = White THEN 1 ELSE -1)
          \/ kind = Knight /\ {df, AbsDiff(Square_rank(s), Square_rank(t))} = {1, 2}
          \/ kind = King /\ Square_distance(s, t) = 1
          \/ SlidesAlong(p, s, t) /\ StrictlyBetween(s, t) \cap Occupied(p) = {}

FreshCheckers(p) ==
    LET us == p.to_move
    IN {s \in Occupied(p) :
           Piece_color(p.board[s]) # us /\ PieceAttacks(p, s, KingSquare(p, us))}

\* the enemy sliders aligned with c's king with exactly one occupied square
\* strictly between, each with that square
FreshPins(p, c) ==
    LET k == KingSquare(p, c)
    IN {<<s, b>> \in Occupied(p) \X Occupied(p) :
           /\ Piece_color(p.board[s]) # c
           /\ SlidesAlong(p, s, k)
           /\ StrictlyBetween(k, s) \cap Occupied(p) = {b}}

DerivedStateIsFresh(p) ==
    /\ checkers(p) = FreshCheckers(p)
    /\ \A c \in Colors :
          /\ blockers(p, c) = {x[2] : x \in FreshPins(p, c)}
          /\ pinners(p, Color_not(c)) = {x[1] : x \in FreshPins(p, c)}

\* the FEN texts that hold an en passant field
CompleteFenIsFresh ==
    (fenio.built /\ FenHasEpField(fenio.fen) /\ ~pos.panic) => DerivedStateIsFresh(pos)

\* C19: after new_from_fen and after every make_move the checkers, blockers
\* and pinners of the top State equal a from-scratch computation on the
\* current board.
C19_DerivedStateIsFresh ==
    (~pos.panic /\ HasBothKings(pos)) => DerivedStateIsFresh(pos)

\* ---------------------------------------------------------------------------
\* The castling rights a move takes away, read off the board before the move.
\* ---------------------------------------------------------------------------
RightsOf(castle_rights) ==
    {cf \in {WhiteShort, WhiteLong, BlackShort, BlackLong} : U8And(castle_rights, cf) = cf}
RightsOfColor(c) == IF c = White THEN {WhiteShort, WhiteLong} ELSE {BlackShort, BlackLong}
\* the home corner of the rook of a right
HomeCorner(cf) ==
    CASE cf = WhiteShort -> H1 [] cf = WhiteLong -> A1 [] cf = BlackShort -> H8 [] cf = BlackLong -> A8

RightsLostBy(p, m) ==
    LET us == p.to_move
        from == Move_from(m)
        to == Move_to(m)
        mover == Piece_kind(p.board[from])
        capture_square == IF Move_kind(m) = EnPassant
                          THEN Square_new(Square_file(to), Square_rank(from)) ELSE to
        taken == p.board[capture_square]
    IN (IF mover = King THEN RightsOfColor(us) ELSE {})
         \cup (IF mover = Rook THEN {cf \in RightsOfColor(us) : HomeCorner(cf) = from} ELSE {})
         \cup (IF taken # NoPiece /\ Piece_kind(taken) = Rook
               THEN {cf \in RightsOfColor(Color_not(us)) : HomeCorner(cf) = capture_square}
               ELSE {})

MakeMoveOnlyRemovesRights ==
    \A m \in LegalSet(pos) :
        RightsOf(state(make_move(pos, m)).castle_rights)
            = RightsOf(state(pos).castle_rights) \ RightsLostBy(pos, m)

RightsNeverGained ==
    \A i \in 1..(Len(pos.state) - 1) :
        RightsOf(pos.state[i + 1].castle_rights) \subseteq RightsOf(pos.state[i].castle_rights)

\* C20: make_move only removes castling rights: both rights of the mover when
\* a king moves, the mover's right of the rook that leaves its home square,
\* the opponent's right of the rook captured on its home corner, and no other;
\* along a sequence of moves the rights never gain a bit.
C20_CastleRightsOnlyShrink ==
    ~pos.panic => MakeMoveOnlyRemovesRights /\ RightsNeverGained

\* a rook has taken the rook on A8 from A1: each side has lost its long right
C20_Witness ==
    /\ Len(history) = 1 /\ Len(pos.state) = 2
    /\ Move_from(history[1]) = A1 /\ Move_to(history[1]) = A8
    /\ state(pos).captured = Piece_new(Rook, Black)
    /\ RightsOf(pos.state[1].castle_rights) = {WhiteShort, WhiteLong, BlackShort, BlackLong}
    /\ RightsOf(state(pos).castle_rights) = {WhiteShort, BlackShort}
    /\ MakeMoveOnlyRemovesRights

\* ---------------------------------------------------------------------------
\* The en passant square a move leaves, read off the board before the move.
\* ---------------------------------------------------------------------------
IsDoublePush(p, m) ==
    /\ Piece_kind(p.board[Move_from(m)]) = Pawn
    /\ AbsDiff(Square_rank(Move_from(m)), Square_rank(Move_to(m))) = 2
\* the square between the two ends of a double push
PassedOver(m) ==
    Square_new(Square_file(Move_from(m)),
               (Square_rank(Move_from(m)) + Square_rank(Move_to(m))) \div 2)

EnPassantSetByDoublePushOnly ==
    \A m \in LegalSet(pos) :
        ep(make_move(pos, m)) = IF IsDoublePush(pos, m) THEN PassedOver(m) ELSE NoSquare

\* history[i] led from the position of pos.state[i] to that of pos.state[i + 1]:
\* a square in the upper State comes from a pawn move of two ranks
EnPassantLastsOnePly ==
    \A i \in 1..Len(history) :
        LET s == pos.state[i + 1].en_passant
            m == history[i]
        IN s # NoSquare =>
              /\ AbsDiff(Square_rank(Move_from(m)), Square_rank(Move_to(m))) = 2
              /\ s = PassedOver(m)
              /\ Square_rank(s) = Color_relative_rank(IF Square_rank(Move_from(m)) = 1
                                                      THEN White ELSE Black, RankThree)

\* C21: after make_move the en passant square is Some(s) iff a pawn advanced
\* two ranks, s being the square it passed over, and None after every other
\* move, so that a target never outlives one ply.
C21_EnPassantOnlyAfterDoublePush ==
    (~pos.panic /\ Len(pos.state) = Len(history) + 1) =>
        EnPassantSetByDoublePushOnly /\ EnPassantLastsOnePly

\* a double push set the square, the reply was another move and cleared it
C21_Witness ==
    /\ Len(history) = 2 /\ Len(pos.state) = 3
    /\ pos.state[2].en_passant = PassedOver(history[1])
    /\ pos.state[2].en_passant # NoSquare
    /\ Move_kind(history[2]) = Normal
    /\ ep(pos) = NoSquare
    /\ \E m \in LegalSet(pos) : IsDoublePush(pos, m)

\* ---------------------------------------------------------------------------
\* The halfmove clock and the captured piece a move leaves.
\* ---------------------------------------------------------------------------
CaptureSquareOf(m) ==
    IF Move_kind(m) = EnPassant
    THEN Square_new(Square_file(Move_to(m)), Square_rank(Move_from(m)))
    ELSE Move_to(m)

HalfmovesAndCapturedAfter(p, m) ==
    LET q == make_move(p, m)
        taken == p.board[CaptureSquareOf(m)]
        pawn == Piece_kind(p.board[Move_from(m)]) = Pawn
    IN /\ state(q).captured = taken
       /\ state(q).halfmoves = IF pawn \/ taken # NoPiece THEN 0 ELSE state(p).halfmoves + 1
       /\ taken # NoPiece => q.board[CaptureSquareOf(m)] # taken

\* C22: after make_move halfmoves is 0 when a pawn moved or a piece was
\* captured and the previous halfmoves plus 1 otherwise; the captured piece
\* recorded is the piece removed from the capture square (the passed pawn's
\* square for en passant, the destination otherwise), None when none was.
C22_HalfmovesAndCaptured ==
    ~pos.panic => \A m \in LegalSet(pos) : HalfmovesAndCapturedAfter(pos, m)

\* after a double push both an en passant capture and a quiet move of a piece
\* are legal: the first records the passed pawn, the second raises the clock
C22_Witness ==
    /\ Len(history) = 1
    /\ state(pos).halfmoves = 0 /\ state(pos).captured = NoPiece
    /\ \E m \in LegalSet(pos) :
          /\ Move_kind(m) = EnPassant
          /\ state(make_move(pos, m)).captured = Piece_new(Pawn, Color_not(pos.to_move))
          /\ make_move(pos, m).board[Move_to(m)] = Piece_new(Pawn, pos.to_move)
          /\ HalfmovesAndCapturedAfter(pos, m)
    /\ \E m \in LegalSet(pos) :
          /\ state(make_move(pos, m)).halfmoves = 1
          /\ HalfmovesAndCapturedAfter(pos, m)

(***************************************************************************)
(* Castling in generate::legal: king_moves emits the move on has_castle    *)
(* and can_castle, prune_to_legal keeps it when is_legal accepts it.       *)
(***************************************************************************)
HomeRank(c) == IF c = White THEN 0 ELSE 7

\* the squares strictly between the home squares of king and rook
CastleGap(cf) ==
    LET r == HomeRank(CastleFlag_color(cf))
    IN IF cf \in {WhiteShort, BlackShort}
       THEN {Square_new(5, r), Square_new(6, r)}
       ELSE {Square_new(1, r), Square_new(2, r), Square_new(3, r)}

\* the square the king crosses and the square it lands on
CastleKingPath(cf) ==
    LET r == HomeRank(CastleFlag_color(cf))
    IN IF cf \in {WhiteShort, BlackShort}
       THEN {Square_new(5, r), Square_new(6, r)}
       ELSE {Square_new(3, r), Square_new(2, r)}

CastleMoveOf(cf) ==
    Move_new_with_kind(CastleFlag_from_square(cf), CastleFlag_to_square(cf), Castle)

CastleAllowed(p, cf) ==
    LET them == Color_not(p.to_move)
    IN /\ has_castle(p, cf)
       /\ \A s \in CastleGap(cf) : p.board[s] = NoPiece
       /\ attacks_to(p, king(p, p.to_move), them) = {}
       /\ \A x \in CastleKingPath(cf) : attacks_to(p, x, them) = {}

\* C23: a castling move is in generate::legal(p) exactly when the side to move
\* holds the right, the squares strictly between king and rook are empty, the
\* king is not in check and neither the crossed nor the landing square is
\* attacked; no other move of kind Castle is listed.
C23_CastlingExactlyWhenAllowed ==
    ~pos.panic =>
        /\ \A cf \in RightsOfColor(pos.to_move) :
              (CastleMoveOf(cf) \in LegalSet(pos)) <=> CastleAllowed(pos, cf)
        /\ \A m \in LegalSet(pos) :
              Move_kind(m) = Castle => \E cf \in RightsOfColor(pos.to_move) : m = CastleMoveOf(cf)

\* long castling is listed although the b-file square next to the rook is attacked
C23_Witness ==
    LET us == pos.to_move
        cf == CastleFlag_long_for(us)
        b_square == Square_new(1, HomeRank(us))
    IN /\ history # <<>>
       /\ CastleMoveOf(cf) \in LegalSet(pos)
       /\ CastleAllowed(pos, cf)
       /\ pos.board[b_square] = NoPiece
       /\ attacks_to(pos, b_square, Color_not(us)) # {}

(***************************************************************************)
(* En passant captures in is_legal, against the board after the capture.   *)
(***************************************************************************)
\* the board with the capturing pawn on its target and the captured pawn gone
BoardAfterEnPassant(p, m) ==
    [p EXCEPT !.board = [s \in Squares |->
        IF s = Move_to(m) THEN p.board[Move_from(m)]
        ELSE IF s \in {Move_from(m), CaptureSquareOf(m)} THEN NoPiece
        ELSE p.board[s]]]

\* on that board an enemy bishop, rook or queen attacks the mover's king
EnPassantExposesKing(p, m) ==
    LET q == BoardAfterEnPassant(p, m)
        k == KingSquare(p, p.to_move)
    IN \E s \in Occupied(q) :
          /\ Piece_color(q.board[s]) # p.to_move
          /\ SlidesAlong(q, s, k)
          /\ StrictlyBetween(s, k) \cap Occupied(q) = {}

EnPassantMoves(p) == {m \in SeqSet(pseudo_legal(p)) : Move_kind(m) = EnPassant}

\* C24: is_legal rejects an en passant capture that leaves the mover's king
\* attacked by an enemy bishop, rook or queen once both pawns have left their
\* squares, and in single check it accepts only the capture of the checking pawn.
C24_EnPassantNeverExposesKing ==
    ~pos.panic =>
        \A m \in EnPassantMoves(pos) :
            /\ EnPassantExposesKing(pos, m) => ~is_legal(pos, m) /\ m \notin LegalSet(pos)
            /\ (BB_popcount(checkers(pos)) = 1 /\ is_legal(pos, m))
                   => CaptureSquareOf(m) \in checkers(pos)

\* the king is in check from a pawn that just advanced two ranks: one capture of
\* it is accepted, another would open a file to the king and is rejected
C24_Witness ==
    /\ Len(history) = 1
    /\ BB_popcount(checkers(pos)) = 1
    /\ \E m \in EnPassantMoves(pos) :
          /\ is_legal(pos, m) /\ m \in LegalSet(pos)
          /\ checkers(pos) = {CaptureSquareOf(m)}
          /\ ~EnPassantExposesKing(pos, m)
    /\ \E m \in EnPassantMoves(pos) :
          /\ EnPassantExposesKing(pos, m)
          /\ ~is_legal(pos, m) /\ m \notin LegalSet(pos)

(***************************************************************************)
(* The chain of States as a stack: state[1] is the root, the last element  *)
(* is the top, the previous link of state[i + 1] is state[i].              *)
(***************************************************************************)
\* the chain is as deep as the moves made and not taken back
ChainTracksHistory ==
    /\ ~pos.panic
    /\ Len(pos.state) - 1 = Len(history)
    /\ pos.moves = Len(history)

\* a step of make_move puts one State on the former chain
PushesOneState ==
    (Len(history') = Len(history) + 1 /\ SubSeq(history', 1, Len(history)) = history)
        => /\ Len(pos'.state) = Len(pos.state) + 1
           /\ SubSeq(pos'.state, 1, Len(pos.state)) = pos.state
           /\ pos'.moves = pos.moves + 1

\* a step of unmake_move takes the top off and leaves the rest
PopsOneState ==
    (history # <<>> /\ history' = SubSeq(history, 1, Len(history) - 1))
        => /\ Len(pos.state) > 1
           /\ pos'.state = SubSeq(pos.state, 1, Len(pos.state) - 1)
           /\ pos'.moves = pos.moves - 1

\* C25: the State chain is a strict LIFO stack: make_move pushes exactly one
\* State on the unmodified former chain, unmake_move pops exactly one, the
\* number of States minus one is the number of moves made and not taken back,
\* which is the moves counter, and the root State is never popped.
C25_StateChainIsLifo ==
    /\ []ChainTracksHistory
    /\ [][PushesOneState /\ PopsOneState]_vars

\* two moves deep, the State below the top is the one the first move pushed
C25_Witness ==
    /\ Len(history) = 2 /\ Len(pos.state) = 3 /\ pos.moves = 2
    /\ \E f \in GameFens :
          /\ pos.state[1] = state(new_from_fen(f))
          /\ pos.state[2] = state(make_move(new_from_fen(f), history[1]))
          /\ unmake_move(pos, history[2]).state = <<pos.state[1], pos.state[2]>>

(***************************************************************************)
(* MakeMovesSpec: position.rs, Position::make_moves on a slice of Moves.   *)
(* um.i is the position of the `for` loop in the slice, um.applied the     *)
(* last move handed to make_move, um.err the move returned in Err.         *)
(***************************************************************************)
\* from 8/2p5/3p4/KP5r/1R3p1k/8/4P1P1/8 w: E2-E4, B4-B1 and A5-A6 (legal for
\* White), H5-B5 and C7-C5 (legal for Black after them), B5-B6 (the pawn is
\* pinned to its king), B4-B8 (the rook would pass over its own pawn),
\* A1-A2 (no piece stands on A1)
MakeMovesInputs ==
    {Move_new(Square_new(4, 1), Square_new(4, 3)), Move_new(Square_new(1, 3), Square_new(1, 0)),
     Move_new(Square_new(0, 4), Square_new(0, 5)), Move_new(Square_new(7, 4), Square_new(1, 4)),
     Move_new(Square_new(2, 6), Square_new(2, 4)), Move_new(Square_new(1, 4), Square_new(1, 5)),
     Move_new(Square_new(1, 3), Square_new(1, 7)), Move_new(Square_new(0, 0), Square_new(0, 1))}

MakeMovesInit ==
    /\ pos = new_from_fen(CPW_POS_3_FEN) /\ GameIdle
    /\ mg = NoMagic /\ iv = NoIv /\ fenio = NoFen /\ pre = NoPre /\ ml = NoMl /\ en = NoEn /\ lay = NoLay /\ sl = NoSl
    /\ um \in {[NoUm EXCEPT !.moves = l, !.i = 1] : l \in ListsUpTo(MakeMovesInputs, MaxMoveList)}

\* one turn of `for &m in moves`: Err(m) when is_legal(m) is false, make_move(m)
\* otherwise
MakeMovesStep ==
    /\ ~um.done /\ ~um.failed /\ ~pos.panic
    /\ um.i <= Len(um.moves)
    /\ LET m == um.moves[um.i]
       IN IF ~is_legal(pos, m)
          THEN /\ pos' = pos
               /\ um' = [um EXCEPT !.failed = TRUE, !.err = m]
          ELSE /\ pos' = make_move(pos, m)
               /\ um' = [um EXCEPT !.i = @ + 1, !.applied = m]
    /\ UNCHANGED <<gameVars, mg, iv, fenio, pre, ml, en, lay, sl>>

\* `Ok(())` after the last move
MakeMovesReturn ==
    /\ ~um.done /\ ~um.failed /\ ~pos.panic
    /\ um.i > Len(um.moves)
    /\ um' = [um EXCEPT !.done = TRUE]
    /\ UNCHANGED <<pos, gameVars, mg, iv, fenio, pre, ml, en, lay, sl>>

MakeMovesNext == MakeMovesStep \/ MakeMovesReturn
MakeMovesSpec == MakeMovesInit /\ [][MakeMovesNext]_vars

\* C26: make_moves applies the moves in order; at the first move that is not
\* legal in the position reached it returns Err with that move and applies
\* neither it nor a later one, leaving the earlier ones applied; every legal
\* move is applied, and Ok(()) follows the last one.
C26_StopsAtFirstIllegalMove ==
    [][ (um.i >= 1 /\ ~um.failed /\ ~um.done) =>
          IF um.i > Len(um.moves)
          THEN pos' = pos /\ um'.done /\ ~um'.failed
          ELSE IF um.moves[um.i] \in LegalSet(pos)
          THEN /\ pos' = make_move(pos, um.moves[um.i])
               /\ ~pos'.panic /\ ~um'.failed /\ ~um'.done /\ um'.i = um.i + 1
          ELSE /\ pos' = pos /\ um'.failed /\ um'.err = um.moves[um.i] ]_vars

(***************************************************************************)
(* PruneSpec: movegen.rs, MoveList as its array and length, and            *)
(* generate::prune_to_legal one turn of its `while` per step.  ml.i is the *)
(* index of the loop, ml.tested the moves the filter has looked at.        *)
(***************************************************************************)
MoveListCapacity == 256

MoveList_new(l) ==
    [l EXCEPT !.inner = [k \in 1..MoveListCapacity |-> NoMove], !.length = 0]

MoveList_get(l, index) ==
    IF index >= l.length THEN NoMove ELSE l.inner[index + 1]

MoveList_len(l) == l.length

MoveList_push(l, mov) ==
    [l EXCEPT !.inner[l.length + 1] = SomeMove(mov), !.length = @ + 1]

\* MoveList::remove on the array: the slot at the old end keeps its content
MoveList_remove_inner(l, index) ==
    LET length == l.length - 1
    IN IF index < length
       THEN [l EXCEPT !.length = length, !.inner[index + 1] = l.inner[length + 1]]
       ELSE [l EXCEPT !.length = length]

\* the pushes of list[lo..hi], split in halves
RECURSIVE PushAll(_, _, _, _)
PushAll(l, list, lo, hi) ==
    IF lo > hi THEN l
    ELSE IF lo = hi THEN MoveList_push(l, list[lo])
    ELSE LET mid == (lo + hi) \div 2
             left == PushAll(l, list, lo, mid)
         IN IF left.length = MoveListCapacity THEN left
            ELSE PushAll(left, list, mid + 1, hi)

PruneInit ==
    /\ pos \in {new_from_fen(f) : f \in GameFens} /\ GameIdle
    /\ mg = NoMagic /\ iv = NoIv /\ um = NoUm /\ fenio = NoFen /\ pre = NoPre
    /\ ml = NoMl /\ en = NoEn /\ lay = NoLay /\ sl = NoSl

\* a legal move is made before the list is generated
PrunePlay ==
    /\ ml = NoMl /\ history = <<>>
    /\ \E m \in LegalSet(pos) :
          /\ pos' = make_move(pos, m)
          /\ history' = <<m>>
    /\ UNCHANGED <<frames, pc, ret, root, mv, uci, otherVars>>

\* generate::legal up to its call of prune_to_legal: the list of pseudo_legal
PruneGenerate ==
    /\ ml = NoMl /\ en = NoEn /\ lay = NoLay /\ sl = NoSl
    /\ LET list == pseudo_legal(pos)
       IN /\ Len(list) < MoveListCapacity
          /\ ml' = PushAll(MoveList_new(NoMl), list, 1, Len(list))
    /\ UNCHANGED <<pos, gameVars, mg, iv, um, fenio, pre, en, lay, sl>>

\* faulty variant: the index moves on after a removal as well
PruneNextIndex_always_advances(removed, i) == i + 1

\* `continue` after list.remove(i), `i += 1` otherwise
PruneNextIndex(removed, i) == IF removed THEN i ELSE i + 1

\* one turn of `while i < list.len()`
PruneTurn ==
    /\ ml # NoMl /\ ~ml.done
    /\ ml.i < MoveList_len(ml)
    /\ LET m == MoveList_get(ml, ml.i).move
           removed == NeedsLegalCheck(pos, m) /\ ~is_legal(pos, m)
           after == IF removed THEN MoveList_remove_inner(ml, ml.i) ELSE ml
       IN ml' = [after EXCEPT !.i = PruneNextIndex(removed, ml.i), !.tested = Append(@, m)]
    /\ UNCHANGED <<pos, gameVars, mg, iv, um, fenio, pre, en, lay, sl>>

\* the loop ends
PruneReturn ==
    /\ ml # NoMl /\ ~ml.done
    /\ ml.i >= MoveList_len(ml)
    /\ ml' = [ml EXCEPT !.done = TRUE]
    /\ UNCHANGED <<pos, gameVars, mg, iv, um, fenio, pre, en, lay, sl>>

PruneNext == PrunePlay \/ PruneGenerate \/ PruneTurn \/ PruneReturn
PruneSpec == PruneInit /\ [][PruneNext]_vars

\* the moves below the length, in the order of the array
LiveMoves(l) == [k \in 1..l.length |-> l.inner[k].move]
PassesFilter(p, m) == ~NeedsLegalCheck(p, m) \/ is_legal(p, m)
\* the index of m in list
IndexIn(list, m) == CHOOSE k \in 1..Len(list) : list[k] = m

\* while the loop runs: no move is looked at twice, every move not yet looked
\* at waits at or above the index, the slots below it hold the moves that passed
PruneLoopInvariant ==
    LET orig == pseudo_legal(pos)
        live == LiveMoves(ml)
        ahead == {live[k] : k \in (ml.i + 1)..ml.length}
        below == {live[k] : k \in 1..ml.i}
    IN ml # NoMl =>
       /\ Cardinality(SeqSet(orig)) = Len(orig)
       /\ Cardinality(SeqSet(ml.tested)) = Len(ml.tested)
       /\ Cardinality(ahead) = ml.length - ml.i
       /\ SeqSet(ml.tested) \cap ahead = {}
       /\ SeqSet(ml.tested) \cup ahead = SeqSet(orig)
       /\ ml.i <= ml.length
       /\ Cardinality(below) = ml.i
       /\ below = {m \in SeqSet(ml.tested) : PassesFilter(pos, m)}

\* when the loop has ended
PruneResult ==
    LET orig == pseudo_legal(pos)
        passed == {m \in SeqSet(orig) : PassesFilter(pos, m)}
    IN ml.done =>
          /\ Len(ml.tested) = Len(orig)
          /\ SeqSet(LiveMoves(ml)) = passed
          /\ MoveList_len(ml) = Cardinality(passed)
          /\ \A index \in 0..(MoveListCapacity - 1) :
                MoveList_get(ml, index).some <=> index < MoveList_len(ml)
          /\ LiveMoves(ml) = legal(pos)

\* C27: prune_to_legal looks at every move of the list exactly once although
\* remove puts the last element in the freed slot; afterwards the list holds
\* exactly the moves that passed the filter, len() is their number, get(i) is
\* Some below len() and None from len() on.
C27_PruneExaminesEachMoveOnce == PruneLoopInvariant /\ PruneResult

\* the loop has ended after a removal below the end: the kept moves are out of
\* generation order and the slot at len() still holds a move that get hides
C27_Witness ==
    LET orig == pseudo_legal(pos)
        live == LiveMoves(ml)
    IN /\ ml.done
       /\ ml.length < Len(orig)
       /\ ml.inner[ml.length + 1].some
       /\ ~MoveList_get(ml, ml.length).some
       /\ \E a, b \in 1..ml.length : a < b /\ IndexIn(orig, live[a]) > IndexIn(orig, live[b])

(***************************************************************************)
(* EnumerateSpec: magic.rs, init_magics_for: the `loop` over the subsets   *)
(* of m.mask, one turn per step.  en.size is the index into the scratch    *)
(* arrays, en.visited the values of b the body has run with, each as the   *)
(* number its mask bits spell (one number per subset of the mask).         *)
(***************************************************************************)
ScratchLength == 4096

\* the bits of b under the mask, read as a number below 2^popcount(mask)
SubsetNumber(b, mask) == BB_into_inner(pext(b, mask))

\* the bishop on every square; the rook on A1 (twelve mask bits) and on B2 (ten)
EnumerateCases ==
    {[square |-> sq, is_rook |-> FALSE] : sq \in Squares}
    \cup {[square |-> sq, is_rook |-> TRUE] : sq \in {A1, Square_new(1, 1)}}

EnumerateInit ==
    /\ pos = Position_new /\ GameIdle
    /\ mg = NoMagic /\ iv = NoIv /\ um = NoUm /\ fenio = NoFen /\ pre = NoPre /\ ml = NoMl
    /\ lay = NoLay /\ sl = NoSl
    /\ en \in {[square |-> c.square, is_rook |-> c.is_rook,
                mask |-> Magic_mask(c.square, c.is_rook),
                b |-> {}, size |-> 0, visited |-> {}, pc |-> "loop"] : c \in EnumerateCases}

\* one turn of the `loop`: the body, `size += 1`, the next b, `break` on zero;
\* `occupancy[size]` past the end of the scratch arrays aborts
EnumerateTurn ==
    /\ en.pc = "loop"
    /\ LET nb == NextSubset(en.b, en.mask)
       IN en' = IF en.size >= ScratchLength
                THEN [en EXCEPT !.pc = "panic"]
                ELSE [en EXCEPT !.visited = @ \cup {SubsetNumber(en.b, en.mask)},
                                !.size = @ + 1,
                                !.b = nb,
                                !.pc = IF nb = {} THEN "done" ELSE "loop"]
    /\ UNCHANGED <<pos, gameVars, mg, iv, um, fenio, pre, ml, lay, sl>>

EnumerateNext == EnumerateTurn
EnumerateSpec == EnumerateInit /\ [][EnumerateNext]_vars /\ WF_vars(EnumerateNext)

\* every turn ran with a subset of the mask not seen before
EnumerationIsFresh ==
    /\ en.b \subseteq en.mask
    /\ Cardinality(en.visited) = en.size
    /\ en.size <= 2 ^ BB_popcount(en.mask)
    /\ en.size <= ScratchLength
    /\ en.pc # "panic"
    /\ en.pc = "loop" => SubsetNumber(en.b, en.mask) \notin en.visited
    /\ en.pc = "loop" /\ en.size > 0 => en.b # {}
    /\ en.size = 0 =>
          \A sq \in Squares, r \in BOOLEAN : 2 ^ BB_popcount(Magic_mask(sq, r)) <= ScratchLength

\* at the end every subset was seen
EnumerationIsComplete ==
    en.pc = "done" =>
        /\ en.size = 2 ^ BB_popcount(en.mask)
        /\ en.visited = {SubsetNumber(x, en.mask) : x \in SUBSET en.mask}
        /\ en.visited = 0..(2 ^ BB_popcount(en.mask) - 1)

\* C28: the loop b := (b - mask) & mask from b = 0 ends, its body runs once
\* with every subset of the mask and with nothing else, 2^popcount(mask) times
\* in all, and never with more than 4096 scratch entries.
C28_SubsetLoopVisitsEachSubsetOnce ==
    /\ [](EnumerationIsFresh /\ EnumerationIsComplete)
    /\ <>(en.pc = "done")

\* the rook on a corner: the loop has ended with all 4096 scratch entries used
C28_Witness ==
    /\ en.pc = "done" /\ en.is_rook
    /\ BB_popcount(en.mask) = 12
    /\ en.size = ScratchLength
    /\ Cardinality(en.visited) = ScratchLength

(***************************************************************************)
(* LayoutSpec: magic.rs, init_magics_for: the `for square` loop handing    *)
(* out m.pointer, and Magic::index into the region of a square.            *)
(* lay.pointers[k + 1] is the pointer of square k as an offset into the    *)
(* attack table, lay.size the `size` left by the subset loop of the last   *)
(* square, lay.bits the value Magic::index computed, lay.slot the table    *)
(* entry it selects.                                                       *)
(***************************************************************************)
BishopTableLength == 5248
RookTableLength == 102400
TableLength(is_rook) == IF is_rook THEN RookTableLength ELSE BishopTableLength

\* faulty variant: the region starts on the last entry of the one before
LayoutPointer_overlapping(square, previous, size) ==
    IF square = A1 THEN 0 ELSE previous + size - 1

\* `m.pointer = if square == Square::A1 { table } else { ptr.offset(size) }`
LayoutPointer(square, previous, size) ==
    IF square = A1 THEN 0 ELSE previous + size

\* magic numbers to index with: zero, all ones, the multiplier of the generator
LayoutMagics == {{}, Squares, PRNG_MULTIPLIER}
\* occupancies to index with
LayoutOccupancies(mask) == {{}, Squares, mask, BB_not(mask)}

LayoutInit ==
    /\ pos = Position_new /\ GameIdle
    /\ mg = NoMagic /\ iv = NoIv /\ um = NoUm /\ fenio = NoFen /\ pre = NoPre /\ ml = NoMl
    /\ en = NoEn /\ sl = NoSl
    /\ lay \in {[NoLay EXCEPT !.is_rook = r, !.pc = "squares"] : r \in BOOLEAN}

\* one turn of `for square in Bitboard::new(0).not()`: the pointer, then the
\* subset loop, which leaves 2^popcount(m.mask) in size
LayoutSquare ==
    /\ lay.pc \in {"squares", "laid"}
    /\ lay.square < 64
    /\ LET square == lay.square
           mask == Magic_mask(square, lay.is_rook)
           previous == IF square = A1 THEN 0 ELSE lay.pointers[square]
       IN lay' = [lay EXCEPT !.pointers = Append(@, LayoutPointer(square, previous, lay.size)),
                             !.size = 2 ^ BB_popcount(mask),
                             !.square = square + 1,
                             !.pc = "laid"]
    /\ UNCHANGED <<pos, gameVars, mg, iv, um, fenio, pre, ml, en, sl>>

\* Magic::index of the square laid out last, without the pext feature
LayoutIndex ==
    /\ lay.pc = "laid"
    /\ LET square == lay.square - 1
           mask == Magic_mask(square, lay.is_rook)
       IN \E magic \in LayoutMagics, occupancy \in LayoutOccupancies(mask) :
             LET bits == BB_shr(BB_mul(mask \cap occupancy, magic), 64 - BB_popcount(mask))
             IN lay' = [lay EXCEPT !.bits = bits,
                                   !.slot = lay.pointers[square + 1] + BB_into_inner(bits),
                                   !.pc = "indexed"]
    /\ UNCHANGED <<pos, gameVars, mg, iv, um, fenio, pre, ml, en, sl>>

\* Magic::index of the square laid out last, with the pext feature
LayoutIndexPext ==
    /\ lay.pc = "laid"
    /\ LET square == lay.square - 1
           mask == Magic_mask(square, lay.is_rook)
       IN \E occupancy \in LayoutOccupancies(mask) :
             LET bits == pext(occupancy, mask)
             IN lay' = [lay EXCEPT !.bits = bits,
                                   !.slot = lay.pointers[square + 1] + BB_into_inner(bits),
                                   !.pc = "indexed"]
    /\ UNCHANGED <<pos, gameVars, mg, iv, um, fenio, pre, ml, en, sl>>

LayoutNext == LayoutSquare \/ LayoutIndex \/ LayoutIndexPext
LayoutSpec == LayoutInit /\ [][LayoutNext]_vars

\* the entries of square k: 2^popcount of its mask
RegionSize(k, is_rook) == 2 ^ BB_popcount(Magic_mask(k, is_rook))

\* the region of the first square starts the table and every other region
\* starts where the one before ends
RegionsAreContiguous ==
    \A k \in 0..(Len(lay.pointers) - 1) :
        lay.pointers[k + 1] =
            IF k = 0 THEN 0 ELSE lay.pointers[k] + RegionSize(k - 1, lay.is_rook)

\* the regions handed out so far end inside the table, the last one on its end
RegionsFillTheTable ==
    /\ lay.square > 0 =>
          lay.pointers[lay.square] + RegionSize(lay.square - 1, lay.is_rook)
              <= TableLength(lay.is_rook)
    /\ lay.square = 64 =>
          lay.pointers[64] + RegionSize(63, lay.is_rook) = TableLength(lay.is_rook)

\* an index has no bit at or above popcount(mask): the entry lies in the region
IndexStaysInRegion ==
    lay.pc = "indexed" =>
        LET k == lay.square - 1
        IN /\ \A bit \in lay.bits : bit < BB_popcount(Magic_mask(k, lay.is_rook))
           /\ lay.slot >= lay.pointers[k + 1]
           /\ lay.slot < lay.pointers[k + 1] + RegionSize(k, lay.is_rook)

Ring(square, d) == {t \in Squares : Square_distance(square, t) = d}

\* empty and full boards, a scattered set and its complement, one ring of
\* blockers, two rings, the far ring alone; each with and without the square
SliderOccupancies(square) ==
    LET base == {{}, Squares, PRNG_MULTIPLIER, BB_not(PRNG_MULTIPLIER),
                 Ring(square, 1), Ring(square, 2), Ring(square, 2) \cup Ring(square, 3),
                 Ring(square, 3) \cup Ring(square, 5), Ring(square, 4)}
    IN {x \cup {square} : x \in base} \cup {x \ {square} : x \in base}

SliderDirections == {Direction_orthogonal, Direction_diagonal, Direction_all}

SlidersInit ==
    /\ pos = Position_new /\ GameIdle
    /\ mg = NoMagic /\ iv = NoIv /\ um = NoUm /\ fenio = NoFen /\ pre = NoPre /\ ml = NoMl
    /\ en = NoEn /\ lay = NoLay
    /\ \E s \in Squares : \E occ \in SliderOccupancies(s) : \E dirs \in SliderDirections :
          sl = [square |-> s, occupancy |-> occ, dirs |-> dirs, got |-> {}, done |-> FALSE]

SlidersCall ==
    /\ ~sl.done
    /\ sl' = [sl EXCEPT !.got = sliders(sl.square, sl.occupancy, sl.dirs), !.done = TRUE]
    /\ UNCHANGED <<pos, gameVars, mg, iv, um, fenio, pre, ml, en, lay>>

SlidersNext == SlidersCall
SlidersSpec == SlidersInit /\ [][SlidersNext]_vars

\* the walk of slider_gen over the same directions
WalkedAttacks(square, occupancy, dirs) ==
    (IF \E i \in 1..Len(dirs) : dirs[i] \in SeqSet(Direction_orthogonal)
     THEN slider_gen(square, occupancy, TRUE) ELSE {})
    \cup (IF \E i \in 1..Len(dirs) : dirs[i] \in SeqSet(Direction_diagonal)
          THEN slider_gen(square, occupancy, FALSE) ELSE {})

\* along dir the attack ends on the blocker nearest to the square, which has the
\* lowest index of the blockers for N, NE, NW and E and the highest for the rest
NearestBlockerEndsRay(square, occupancy, dir, got) ==
    LET along == ray(square, dir)
        hit == along \cap occupancy
        nearest == CHOOSE x \in hit :
                      \A y \in hit : Square_distance(square, x) <= Square_distance(square, y)
    IN IF hit = {} THEN got \cap along = along
       ELSE /\ nearest = IF dir \in {North, NorthEast, NorthWest, East}
                         THEN CHOOSE x \in hit : \A y \in hit : x <= y
                         ELSE CHOOSE x \in hit : \A y \in hit : x >= y
            /\ got \cap along =
                  {t \in along : Square_distance(square, t) <= Square_distance(square, nearest)}

\* C30: sliders(s, occ, dirs) over the ray tables equals the step-by-step
\* slider_gen for the orthogonal, the diagonal and the full direction set; each
\* ray ends on its nearest blocker, the lowest-index one for N, NE, NW and E
\* and the highest-index one for S, SE, SW and W; s is never in the result,
\* and the result is the same with and without s in occ.
C30_SlidersEqualsWalk ==
    sl.done =>
        /\ sl.got = WalkedAttacks(sl.square, sl.occupancy, sl.dirs)
        /\ sl.square \notin sl.got
        /\ sl.got = sliders(sl.square, sl.occupancy \cup {sl.square}, sl.dirs)
        /\ sl.got = sliders(sl.square, sl.occupancy \ {sl.square}, sl.dirs)
        /\ \A i \in 1..Len(sl.dirs) :
              NearestBlockerEndsRay(sl.square, sl.occupancy, sl.dirs[i], sl.got)
        /\ sl.got \subseteq UNION {ray(sl.square, sl.dirs[i]) : i \in 1..Len(sl.dirs)}

\* the queen on D4 with two rings of blockers and D4 itself occupied: every
\* ray ends on the near ring
C30_Witness ==
    /\ sl.done /\ sl.dirs = Direction_all
    /\ sl.square = Square_new(3, 3)
    /\ sl.square \in sl.occupancy
    /\ sl.occupancy = Ring(sl.square, 2) \cup Ring(sl.square, 3) \cup {sl.square}
    /\ sl.got = Ring(sl.square, 1)
                \cup (Ring(sl.square, 2) \cap queen_attacks(sl.square, {}))
    /\ sl.got = WalkedAttacks(sl.square, sl.occupancy, sl.dirs)

====
